---- MODULE Spec2Model ----
(***************************************************************************)
(* Job pipeline of the process-mining tool: the EventLogJob life cycle,     *)
(* the background runner process_job, the license quota checks of the job   *)
(* API (create_job, create_csv_import_session, process_csv_import) and      *)
(* delete_project.                                                          *)
(*                                                                          *)
(* Strings whose content matters are sequences of characters (project       *)
(* names, file stems); a file extension is one token.  A job's persisted    *)
(* row lives in jobs[id]; the runner works on its in-memory copy rjob[id]   *)
(* and job.save() writes the whole copy back.                               *)
(***************************************************************************)
EXTENDS Integers, Sequences, FiniteSets, Bags, TLC

\* ---------------------------------------------------------------- bounds
MaxJobs == 2
MaxSessions == 1
MaxRows == 3
MaxLimit == 1
MaxUploads == 1
MaxTime == 2
MaxLoads == 2

\* ------------------------------------------------------------ value sets
Users == {"ua", "ub"}
Threads == {"t1", "t2", "t3"}
Null == <<>>                         \* None in a nullable field; a set value v is <<v>>
NoJob == [absent |-> "job"]
NoSession == [absent |-> "session"]
NoFile == [absent |-> "file"]
NoUser == [absent |-> "user"]
NoResp == [op |-> "none", user |-> "", status |-> 0, error |-> "", detail |-> 0]

LICENSE_FREE == "free"
LICENSE_PREMIUM == "premium"
ALGORITHM_CHOICES == {"alpha", "heuristics", "inductive"}
MINING_METHOD_CHOICES == {"alpha", "heuristics"}
STATUS_CHOICES == {"pending", "running", "done", "error"}

JobIds == 1..MaxJobs
SessionIds == 1..MaxSessions

\* ------------------------------------------------------- string helpers
Range(s) == {s[i] : i \in 1..Len(s)}

RECURSIVE LStrip(_)
LStrip(s) == IF s # <<>> /\ Head(s) = " " THEN LStrip(Tail(s)) ELSE s

RECURSIVE RStrip(_)
RStrip(s) ==
  IF s # <<>> /\ s[Len(s)] = " " THEN RStrip(SubSeq(s, 1, Len(s) - 1)) ELSE s

\* str.strip()
Strip(s) == RStrip(LStrip(s))

\* str.lower() on an extension token
Lower(e) == IF e = ".CSV" THEN ".csv" ELSE e

\* str.title() on an algorithm identifier
Title(a) ==
  CASE a = "alpha" -> "Alpha"
    [] a = "heuristics" -> "Heuristics"
    [] a = "inductive" -> "Inductive"
    [] OTHER -> a

Min(a, b) == IF a < b THEN a ELSE b

\* ------------------------------------------------------------ variables
VARIABLES
  users,      \* user id -> User row
  now,        \* timezone.now()
  codes,      \* code -> LicenseCode row
  lforms,     \* user id -> the LicenseCode object a bound LicenseActivationForm holds, or Null
  MODELS_CACHE, \* prediction.services._MODELS_CACHE: Null, or <<the dict object>>
  loader,     \* thread -> where its call of load_prediction_models stands
  loads,      \* history: how many times the model files have been read from disk
  grants,     \* history: <<user, code, path>> for every premium license given through a code
  proc,       \* what the threads of the server process share: sys.path, os.environ['PATH']
  jobs,       \* job id -> EventLogJob row, or NoJob
  nextId,     \* next auto-increment id of EventLogJob
  files,      \* stored files (media storage)
  inflight,   \* create_job requests that passed line 131 and have not yet reached line 134
  sessions,   \* session id -> CSVImportSession row, or NoSession
  nextSid,    \* next auto-increment id of CSVImportSession
  runner,     \* job id -> position of the process_job thread for that id
  rjob,       \* job id -> the runner's in-memory job object
  log,        \* job id -> what the process_job thread did: stage outcomes and saves (history)
  resp        \* the HTTP response sent by the step just taken, NoResp when it sent none

vars == <<users, now, proc, codes, lforms, grants, MODELS_CACHE, loader, loads, jobs, nextId, files, inflight, sessions, nextSid,
          runner, rjob, log, resp>>

\* ----------------------------------------------------------- User model
is_premium(user) ==
  IF user.license_type # LICENSE_PREMIUM THEN FALSE
  ELSE IF user.license_expires_at # Null /\ user.license_expires_at[1] < now THEN FALSE
  ELSE TRUE

\* mutant: an empty allowed_algorithms allows nothing
get_allowed_algorithms_strict(user) ==
  IF is_premium(user) THEN ALGORITHM_CHOICES ELSE user.allowed_algorithms

get_allowed_algorithms(user) ==
  IF is_premium(user) \/ user.allowed_algorithms = {}
  THEN ALGORITHM_CHOICES
  ELSE user.allowed_algorithms

can_use_algorithm(user, algorithm) ==
  algorithm \in get_allowed_algorithms(user)

\* --------------------------------------------------------- job queries
Existing == {j \in JobIds : jobs[j] # NoJob}

\* mutant: the count is taken over every user's jobs
project_count_all_users(u) ==
  Cardinality({jobs[j].project_name : j \in {k \in Existing : jobs[k].project_name # <<>>}})

\* EventLogJob.objects.filter(user=u).exclude(null).exclude('')
\*   .values('project_name').distinct().count()
project_count(u) ==
  Cardinality({jobs[j].project_name :
                 j \in {k \in Existing : jobs[k].user = u /\ jobs[k].project_name # <<>>}})

\* pd.read_csv(uploaded_file, nrows=n): len of the frame read
read_csv_nrows(file, n) == Min(file.rows, n)

\* content.count('\n') based line count of create_csv_import_session
csv_line_count(file) ==
  LET lines == 1 + file.rows                      \* header + data lines
      newlines == IF file.trailing_nl THEN lines ELSE lines - 1
      c1 == IF newlines > 0 /\ ~file.trailing_nl THEN newlines + 1 ELSE newlines
  IN  c1 - 1

Response(op, u, status, error, detail) ==
  [op |-> op, user |-> u, status |-> status, error |-> error, detail |-> detail]

\* ------------------------------------------------------------ job rows
\* over_limit is history: whether the log the job was created from had more rows than
\* the limit its owner was under at that moment
over_limit(user, file) ==
  ~is_premium(user) /\ user.max_log_rows > 0 /\ file.readable
  /\ file.rows > user.max_log_rows

NewJob(u, stem, ext, over, project_name, cleaning_enabled, mining_method, message) ==
  [user |-> u, original_filename |-> stem, ext |-> ext, over_limit |-> over,
   project_name |-> project_name,
   cleaning_enabled |-> cleaning_enabled, mining_method |-> mining_method,
   status |-> "pending", progress |-> 0, message |-> message,
   error_message |-> <<>>, output_map_svg |-> FALSE, output_map_image |-> FALSE]

\* mutant: a pre-scan that raises blocks the request
row_limit_check_fail_closed(u, file) ==
  LET user == users[u] IN
  IF file.ext = ".csv" /\ ~is_premium(user)
  THEN LET max_rows == user.max_log_rows IN
       IF max_rows > 0
       THEN IF file.readable
            THEN LET row_count == read_csv_nrows(file, max_rows + 1) IN
                 IF row_count > max_rows
                 THEN Response("create_job", u, 403, "rows", row_count)
                 ELSE NoResp
            ELSE Response("create_job", u, 403, "rows", 0)
       ELSE NoResp
  ELSE NoResp

\* mutant: a log of exactly max_rows rows is denied
row_limit_check_from_limit(u, file) ==
  LET user == users[u] IN
  IF file.ext = ".csv" /\ ~is_premium(user)
  THEN LET max_rows == user.max_log_rows IN
       IF max_rows > 0
       THEN IF file.readable
            THEN LET row_count == read_csv_nrows(file, max_rows + 1) IN
                 IF row_count >= max_rows
                 THEN Response("create_job", u, 403, "rows", row_count)
                 ELSE NoResp
            ELSE NoResp
       ELSE NoResp
  ELSE NoResp

\* the row-limit block of create_job (lines 112-131): the 403 it returns, or NoResp
row_limit_check(u, file) ==
  LET user == users[u] IN
  IF file.ext = ".csv" /\ ~is_premium(user)
  THEN LET max_rows == user.max_log_rows IN
       IF max_rows > 0
       THEN IF file.readable
            THEN LET row_count == read_csv_nrows(file, max_rows + 1) IN
                 IF row_count > max_rows
                 THEN Response("create_job", u, 403, "rows", row_count)
                 ELSE NoResp
            ELSE NoResp            \* except Exception: pass
       ELSE NoResp
  ELSE NoResp

\* the project-limit block of create_job (lines 93-110)
project_limit_check(u) ==
  LET user == users[u] IN
  IF ~is_premium(user)
  THEN LET max_projects == user.max_projects IN
       IF max_projects > 0
       THEN IF project_count(u) >= max_projects
            THEN Response("create_job", u, 403, "projects", max_projects)
            ELSE NoResp
       ELSE NoResp
  ELSE NoResp

\* the algorithm block of create_job (lines 85-92)
algorithm_check(u, mining_method) ==
  LET user == users[u] IN
  IF ~can_use_algorithm(user, mining_method)
  THEN Response("create_job", u, 403, "algorithm",
                [method |-> Title(mining_method),
                 allowed |-> {Title(alg) : alg \in get_allowed_algorithms(user)}])
  ELSE NoResp

\* the license checks create_job runs for a request, in the order it runs them: each 403
\* is a return, so the blocks after it are not reached; "pre-scan" is pd.read_csv at
\* line 119
create_job_checks(u, file, raw_name, mining_method) ==
  LET user == users[u] IN
  IF file = NoFile \/ ~(file.ext = ".xes" \/ file.ext = ".csv") \/ Strip(raw_name) = <<>>
     \/ mining_method \notin MINING_METHOD_CHOICES
  THEN <<>>
  ELSE IF algorithm_check(u, mining_method) # NoResp THEN <<"algorithm">>
  ELSE IF project_limit_check(u) # NoResp THEN <<"algorithm", "projects">>
  ELSE IF file.ext = ".csv" /\ ~is_premium(user) /\ user.max_log_rows > 0
  THEN <<"algorithm", "projects", "rows", "pre-scan">>
  ELSE <<"algorithm", "projects", "rows">>

\* mutant: the project limit is checked before the algorithm
create_job_decision_projects_first(u, file, raw_name, mining_method) ==
  IF file = NoFile THEN Response("create_job", u, 400, "file", 0)
  ELSE IF ~(file.ext = ".xes" \/ file.ext = ".csv")
  THEN Response("create_job", u, 400, "extension", 0)
  ELSE IF Strip(raw_name) = <<>> THEN Response("create_job", u, 400, "project_name", 0)
  ELSE IF mining_method \notin MINING_METHOD_CHOICES
  THEN Response("create_job", u, 400, "mining_method", 0)
  ELSE IF project_limit_check(u) # NoResp THEN project_limit_check(u)
  ELSE IF algorithm_check(u, mining_method) # NoResp THEN algorithm_check(u, mining_method)
  ELSE row_limit_check(u, file)

\* mutant: the mining method is validated after the license checks
create_job_decision_quota_first(u, file, raw_name, mining_method) ==
  IF file = NoFile THEN Response("create_job", u, 400, "file", 0)
  ELSE IF ~(file.ext = ".xes" \/ file.ext = ".csv")
  THEN Response("create_job", u, 400, "extension", 0)
  ELSE IF Strip(raw_name) = <<>> THEN Response("create_job", u, 400, "project_name", 0)
  ELSE IF algorithm_check(u, mining_method) # NoResp THEN algorithm_check(u, mining_method)
  ELSE IF project_limit_check(u) # NoResp THEN project_limit_check(u)
  ELSE IF row_limit_check(u, file) # NoResp THEN row_limit_check(u, file)
  ELSE IF mining_method \notin MINING_METHOD_CHOICES
  THEN Response("create_job", u, 400, "mining_method", 0)
  ELSE NoResp

\* create_job up to line 131: the early response, or NoResp when the request goes on
create_job_decision(u, file, raw_name, mining_method) ==
  IF file = NoFile THEN Response("create_job", u, 400, "file", 0)
  ELSE IF ~(file.ext = ".xes" \/ file.ext = ".csv")
  THEN Response("create_job", u, 400, "extension", 0)
  ELSE IF Strip(raw_name) = <<>> THEN Response("create_job", u, 400, "project_name", 0)
  ELSE IF mining_method \notin MINING_METHOD_CHOICES
  THEN Response("create_job", u, 400, "mining_method", 0)
  ELSE IF algorithm_check(u, mining_method) # NoResp THEN algorithm_check(u, mining_method)
  ELSE IF project_limit_check(u) # NoResp THEN project_limit_check(u)
  ELSE row_limit_check(u, file)

\* mutant: the upload is stored before the request is checked
create_job_stores_first(u, file, cleaning_enabled, mining_method, raw_name) ==
  LET d == create_job_decision(u, file, raw_name, mining_method) IN
  /\ IF d # NoResp
     THEN /\ resp' = d
          /\ UNCHANGED inflight
     ELSE /\ inflight' = inflight (+) SetToBag({
                [user |-> u, stem |-> file.stem, ext |-> file.ext,
                 over_limit |-> over_limit(users[u], file),
                 project_name |-> Strip(raw_name),
                 cleaning_enabled |-> cleaning_enabled,
                 mining_method |-> mining_method]})
          /\ resp' = NoResp
  /\ files' = IF file = NoFile THEN files ELSE files \cup {<<"original", nextId>>}
  /\ UNCHANGED <<users, now, proc, codes, lforms, grants, MODELS_CACHE, loader, loads, jobs, nextId, sessions, nextSid, runner, rjob, log>>

\* create_job, lines 60-131: validation and the three license checks
create_job(u, file, cleaning_enabled, mining_method, raw_name) ==
  LET d == create_job_decision(u, file, raw_name, mining_method) IN
  /\ IF d # NoResp
     THEN /\ resp' = d
          /\ UNCHANGED inflight
     ELSE /\ inflight' = inflight (+) SetToBag({
                [user |-> u, stem |-> file.stem, ext |-> file.ext,
                 over_limit |-> over_limit(users[u], file),
                 project_name |-> Strip(raw_name),
                 cleaning_enabled |-> cleaning_enabled,
                 mining_method |-> mining_method]})
          /\ resp' = NoResp
  /\ UNCHANGED <<users, now, proc, codes, lforms, grants, MODELS_CACHE, loader, loads, jobs, nextId, files, sessions, nextSid, runner, rjob, log>>

\* create_job, lines 133-153: insert the row, store the upload, start the thread
create_job_commit(r) ==
  /\ BagIn(r, inflight)
  /\ nextId <= MaxJobs
  /\ inflight' = inflight (-) SetToBag({r})
  /\ jobs' = [jobs EXCEPT ![nextId] =
                NewJob(r.user, r.stem, r.ext, r.over_limit, r.project_name,
                       r.cleaning_enabled, r.mining_method, "created")]
  /\ files' = files \cup {<<"original", nextId>>}
  /\ runner' = [runner EXCEPT ![nextId] = "start"]
  /\ nextId' = nextId + 1
  /\ resp' = Response("create_job", r.user, 200, "", nextId)
  /\ UNCHANGED <<users, now, proc, codes, lforms, grants, MODELS_CACHE, loader, loads, sessions, nextSid, rjob, log>>

\* ------------------------------------------------------------ process_job
\* `if path not in sys.path: sys.path.insert(0, path)`
sys_path_insert(path, p) ==
  IF path \in Range(p.sys_path) THEN p ELSE [p EXCEPT !.sys_path = <<path>> \o @]

\* run_smart_clean, lines 413-416, before anything in it can raise
run_smart_clean_path(p) == sys_path_insert("Group3", p)

\* run_process_mining, lines 447-450, before anything in it can raise
run_process_mining_path(p) == sys_path_insert("Group4", p)

\* the directories convert_pnml_to_image looks for, and the one that exists on the host
graphviz_paths == <<"/opt/local/bin", "/usr/local/bin", "/opt/homebrew/bin">>

ExistingDirs == {"/usr/local/bin"}

\* convert_pnml_to_image, lines 497-511: the first directory that exists and is not in
\* PATH is put in front of it
convert_pnml_to_image_path(p) ==
  LET found == {i \in 1..Len(graphviz_paths) :
                  graphviz_paths[i] \in ExistingDirs /\ graphviz_paths[i] \notin Range(p.PATH)}
  IN  IF found = {} THEN p
      ELSE LET first == CHOOSE i \in found : \A k \in found : i <= k
           IN  [p EXCEPT !.PATH = <<graphviz_paths[first]>> \o @]

\* history entries of one process_job thread
SaveEntry(job) ==
  [kind |-> "save", stage |-> "", outcome |-> "", exc |-> <<>>, row |-> job]

StageEntry(stage, outcome, e) ==
  [kind |-> "stage", stage |-> stage, outcome |-> outcome,
   exc |-> IF outcome = "raise" THEN e ELSE <<>>, row |-> NoJob]

\* job.save(): UPDATE the row by primary key, INSERT it when no row matched
save(j, job, ev) ==
  /\ jobs' = [jobs EXCEPT ![j] = job]
  /\ rjob' = [rjob EXCEPT ![j] = job]
  /\ log' = [log EXCEPT ![j] = @ \o ev \o <<SaveEntry(job)>>]

\* f'{str(e)}\n\n{traceback.format_exc()}'; the traceback ends with the exception line
format_error(e) == e \o <<"\n", "\n">> \o <<"Traceback", "Exception: ">> \o e

\* mutant: the handler records the error and the function goes on to "mark as done"
fail_falls_through(j, e, ev) ==
  /\ save(j, [rjob[j] EXCEPT !.status = "error", !.progress = 0,
                             !.message = "failed", !.error_message = format_error(e)], ev)
  /\ runner' = [runner EXCEPT ![j] = "finish"]
  /\ UNCHANGED files

\* mutant: no top-level handler, the exception ends the thread
fail_escapes(j, e, ev) ==
  /\ log' = [log EXCEPT ![j] = @ \o ev]
  /\ runner' = [runner EXCEPT ![j] = "crashed"]
  /\ UNCHANGED <<jobs, rjob, files>>

\* mutant: the handler marks every job that is running as failed
fail_marks_running(j, e, ev) ==
  /\ jobs' = [k \in JobIds |->
                IF k = j \/ (jobs[k] # NoJob /\ jobs[k].status = "running")
                THEN [(IF k = j THEN rjob[j] ELSE jobs[k])
                        EXCEPT !.status = "error", !.progress = 0, !.message = "failed",
                               !.error_message = format_error(e)]
                ELSE jobs[k]]
  /\ rjob' = [rjob EXCEPT ![j] = jobs'[j]]
  /\ log' = [log EXCEPT ![j] = @ \o ev \o <<SaveEntry(jobs'[j])>>]
  /\ runner' = [runner EXCEPT ![j] = "finished"]
  /\ UNCHANGED files

\* the except branch of process_job (lines 368-374)
fail(j, e, ev) ==
  /\ save(j, [rjob[j] EXCEPT !.status = "error", !.progress = 0,
                             !.message = "failed", !.error_message = format_error(e)], ev)
  /\ runner' = [runner EXCEPT ![j] = "finished"]
  /\ UNCHANGED files

\* mutant: the thread goes to the load stage without saving the running state
process_job_start_unsaved(j) ==
  /\ runner[j] = "start"
  /\ IF jobs[j] = NoJob
     THEN /\ runner' = [runner EXCEPT ![j] = "finished"]
          /\ UNCHANGED <<jobs, rjob, log>>
     ELSE /\ rjob' = [rjob EXCEPT ![j] = [jobs[j] EXCEPT !.status = "running", !.progress = 10,
                                                          !.message = "loading"]]
          /\ runner' = [runner EXCEPT ![j] = "load"]
          /\ UNCHANGED <<jobs, log>>
  /\ resp' = NoResp
  /\ UNCHANGED <<users, now, proc, codes, lforms, grants, MODELS_CACHE, loader, loads, nextId, files, inflight, sessions, nextSid>>

\* lines 297-301: fetch the row, mark it running
process_job_start(j) ==
  /\ runner[j] = "start"
  /\ IF jobs[j] = NoJob
     THEN \* DoesNotExist is caught with job = None: nothing is written
          /\ runner' = [runner EXCEPT ![j] = "finished"]
          /\ UNCHANGED <<jobs, rjob, log>>
     ELSE /\ save(j, [jobs[j] EXCEPT !.status = "running", !.progress = 10,
                                     !.message = "loading"], <<>>)
          /\ runner' = [runner EXCEPT ![j] = "load"]
  /\ resp' = NoResp
  /\ UNCHANGED <<users, now, proc, codes, lforms, grants, MODELS_CACHE, loader, loads, nextId, files, inflight, sessions, nextSid>>

\* load_event_log (lines 377-405): raises for any extension but .csv and .xes
load_event_log_outcomes(ext) ==
  IF ext = ".csv" \/ ext = ".xes" THEN {"ok", "raise"} ELSE {"raise"}

\* lines 304-310; reading a file that delete_project has removed raises
process_job_load(j, outcome, e) ==
  /\ runner[j] = "load"
  /\ outcome \in load_event_log_outcomes(rjob[j].ext)
  /\ <<"original", j>> \notin files => outcome = "raise"
  /\ IF outcome = "ok"
     THEN /\ save(j, [rjob[j] EXCEPT !.progress = 30, !.message = "loaded"],
                  <<StageEntry("load", outcome, e)>>)
          /\ runner' = [runner EXCEPT ![j] = "loaded"]
          /\ UNCHANGED files
     ELSE fail(j, e, <<StageEntry("load", outcome, e)>>)
  /\ resp' = NoResp
  /\ UNCHANGED <<users, now, proc, codes, lforms, grants, MODELS_CACHE, loader, loads, nextId, inflight, sessions, nextSid>>

\* mutant: the cleaning stage is run whatever cleaning_enabled says
process_job_loaded_always_cleans(j) ==
  /\ runner[j] = "loaded"
  /\ save(j, [rjob[j] EXCEPT !.progress = 40, !.message = "cleaning"], <<>>)
  /\ runner' = [runner EXCEPT ![j] = "clean"]
  /\ resp' = NoResp
  /\ UNCHANGED <<users, now, proc, codes, lforms, grants, MODELS_CACHE, loader, loads, nextId, files, inflight, sessions, nextSid>>

\* lines 312-315 and 324-326: the checkpoint written after loading
process_job_loaded(j) ==
  /\ runner[j] = "loaded"
  /\ IF rjob[j].cleaning_enabled
     THEN /\ save(j, [rjob[j] EXCEPT !.progress = 40, !.message = "cleaning"], <<>>)
          /\ runner' = [runner EXCEPT ![j] = "clean"]
     ELSE /\ save(j, [rjob[j] EXCEPT !.progress = 70, !.message = "mining"], <<>>)
          /\ runner' = [runner EXCEPT ![j] = "mine"]
  /\ resp' = NoResp
  /\ UNCHANGED <<users, now, proc, codes, lforms, grants, MODELS_CACHE, loader, loads, nextId, files, inflight, sessions, nextSid>>

\* lines 317-321: run_smart_clean and the checkpoint after it
process_job_clean(j, outcome, e) ==
  /\ runner[j] = "clean"
  /\ outcome \in {"ok", "raise"}
  /\ IF outcome = "ok"
     THEN /\ save(j, [rjob[j] EXCEPT !.progress = 60, !.message = "cleaned"],
                  <<StageEntry("clean", outcome, e)>>)
          /\ runner' = [runner EXCEPT ![j] = "cleaned"]
          /\ UNCHANGED files
     ELSE fail(j, e, <<StageEntry("clean", outcome, e)>>)
  /\ proc' = run_smart_clean_path(proc)
  /\ resp' = NoResp
  /\ UNCHANGED <<users, now, codes, lforms, grants, MODELS_CACHE, loader, loads, nextId, inflight, sessions, nextSid>>

\* mutant: the checkpoint after cleaning is written as 50
process_job_cleaned_50(j) ==
  /\ runner[j] = "cleaned"
  /\ save(j, [rjob[j] EXCEPT !.progress = 50, !.message = "mining"], <<>>)
  /\ runner' = [runner EXCEPT ![j] = "mine"]
  /\ resp' = NoResp
  /\ UNCHANGED <<users, now, proc, codes, lforms, grants, MODELS_CACHE, loader, loads, nextId, files, inflight, sessions, nextSid>>

\* lines 324-326 after cleaning
process_job_cleaned(j) ==
  /\ runner[j] = "cleaned"
  /\ save(j, [rjob[j] EXCEPT !.progress = 70, !.message = "mining"], <<>>)
  /\ runner' = [runner EXCEPT ![j] = "mine"]
  /\ resp' = NoResp
  /\ UNCHANGED <<users, now, proc, codes, lforms, grants, MODELS_CACHE, loader, loads, nextId, files, inflight, sessions, nextSid>>

\* run_process_mining (lines 436-479): raises for a method other than alpha and
\* heuristics, and returns the PNML path only after finding the file (line 476)
run_process_mining_outcomes(method) ==
  IF method \in {"alpha", "heuristics"} THEN {"ok", "raise"} ELSE {"raise"}

\* mutant: run_process_mining returns a path without looking for the file
pnml_exists_unchecked(outcome) == FALSE

\* output_pnml_path and os.path.exists(output_pnml_path), line 330
pnml_exists(outcome) == outcome = "ok"

\* lines 328-337
process_job_mine(j, outcome, e) ==
  /\ runner[j] = "mine"
  /\ outcome \in run_process_mining_outcomes(rjob[j].mining_method)
  /\ IF outcome = "ok"
     THEN IF pnml_exists(outcome)
          THEN /\ save(j, [rjob[j] EXCEPT !.progress = 90, !.message = "visualizing"],
                       <<StageEntry("discover", outcome, e)>>)
               /\ runner' = [runner EXCEPT ![j] = "visualize"]
               /\ UNCHANGED files
          ELSE /\ runner' = [runner EXCEPT ![j] = "finish"]
               /\ log' = [log EXCEPT ![j] = Append(@, StageEntry("discover", outcome, e))]
               /\ UNCHANGED <<jobs, rjob, files>>
     ELSE fail(j, e, <<StageEntry("discover", outcome, e)>>)
  /\ proc' = run_process_mining_path(proc)
  /\ resp' = NoResp
  /\ UNCHANGED <<users, now, codes, lforms, grants, MODELS_CACHE, loader, loads, nextId, inflight, sessions, nextSid>>

\* what the visualization block can do: store the SVG, find no SVG file, or raise in
\* convert_pnml_to_image or in output_map_svg.save
VisualizeOutcomes == {"stored", "no_file", "raise"}

\* mutant: no inner try/except, a rendering exception reaches the top-level handler
process_job_visualize_fatal(j, outcome) ==
  /\ runner[j] = "visualize"
  /\ outcome \in VisualizeOutcomes
  /\ IF outcome = "raise"
     THEN fail(j, <<"render">>, <<StageEntry("visualize", outcome, <<"render">>)>>)
     ELSE /\ IF outcome = "stored"
             THEN /\ files' = files \cup {<<"svg", j>>}
                  /\ rjob' = [rjob EXCEPT ![j].output_map_svg = TRUE]
             ELSE UNCHANGED <<files, rjob>>
          /\ log' = [log EXCEPT ![j] = Append(@, StageEntry("visualize", outcome, <<"render">>))]
          /\ runner' = [runner EXCEPT ![j] = "finish"]
          /\ UNCHANGED jobs
  /\ proc' = convert_pnml_to_image_path(proc)
  /\ resp' = NoResp
  /\ UNCHANGED <<users, now, codes, lforms, grants, MODELS_CACHE, loader, loads, nextId, inflight, sessions, nextSid>>

\* mutant: output_map_svg.save(...) with save=True writes the record as well
process_job_visualize_saves(j, outcome) ==
  /\ runner[j] = "visualize"
  /\ outcome \in VisualizeOutcomes
  /\ IF outcome = "stored"
     THEN /\ files' = files \cup {<<"svg", j>>}
          /\ save(j, [rjob[j] EXCEPT !.output_map_svg = TRUE],
                  <<StageEntry("visualize", outcome, <<"render">>)>>)
     ELSE /\ log' = [log EXCEPT ![j] =
                       Append(@, StageEntry("visualize", outcome, <<"render">>))]
          /\ UNCHANGED <<files, rjob, jobs>>
  /\ runner' = [runner EXCEPT ![j] = "finish"]
  /\ proc' = convert_pnml_to_image_path(proc)
  /\ resp' = NoResp
  /\ UNCHANGED <<users, now, codes, lforms, grants, MODELS_CACHE, loader, loads, nextId, inflight, sessions, nextSid>>

\* lines 340-360: convert_pnml_to_image and output_map_svg.save(..., save=False);
\* every exception of the block is swallowed
process_job_visualize(j, outcome) ==
  /\ runner[j] = "visualize"
  /\ outcome \in VisualizeOutcomes
  /\ IF outcome = "stored"
     THEN /\ files' = files \cup {<<"svg", j>>}
          /\ rjob' = [rjob EXCEPT ![j].output_map_svg = TRUE]
     ELSE UNCHANGED <<files, rjob>>
  /\ log' = [log EXCEPT ![j] = Append(@, StageEntry("visualize", outcome, <<"render">>))]
  /\ runner' = [runner EXCEPT ![j] = "finish"]
  /\ proc' = convert_pnml_to_image_path(proc)
  /\ resp' = NoResp
  /\ UNCHANGED <<users, now, codes, lforms, grants, MODELS_CACHE, loader, loads, jobs, nextId, inflight, sessions, nextSid>>

\* mutant: the function returns after rendering without the last save
process_job_done_unsaved(j) ==
  /\ runner[j] = "finish"
  /\ runner' = [runner EXCEPT ![j] = "finished"]
  /\ resp' = NoResp
  /\ UNCHANGED <<users, now, proc, codes, lforms, grants, MODELS_CACHE, loader, loads, jobs, rjob, log, nextId, files, inflight, sessions, nextSid>>

\* lines 362-366
process_job_done(j) ==
  /\ runner[j] = "finish"
  /\ save(j, [rjob[j] EXCEPT !.status = "done", !.progress = 100, !.message = "complete"],
          <<>>)
  /\ runner' = [runner EXCEPT ![j] = "finished"]
  /\ resp' = NoResp
  /\ UNCHANGED <<users, now, proc, codes, lforms, grants, MODELS_CACHE, loader, loads, nextId, files, inflight, sessions, nextSid>>

\* ------------------------------------------------------------- job_status
\* mutant: the PNG is served when both outputs are stored
get_output_url_image_first(j, job) ==
  IF job.output_map_image THEN <<"image", j>>
  ELSE IF job.output_map_svg THEN <<"svg", j>>
  ELSE Null

\* EventLogJob.get_output_url
get_output_url(j, job) ==
  IF job.output_map_svg THEN <<"svg", j>>
  ELSE IF job.output_map_image THEN <<"image", j>>
  ELSE Null

\* the JSON body of job_status for a job the caller owns; an absent key is Null
status_payload(j, job) ==
  [status |-> job.status, progress |-> job.progress, message |-> job.message,
   redirect_url |-> IF job.status = "done" THEN <<"/dashboard/">> ELSE Null,
   output_url |-> IF job.status = "done" /\ get_output_url(j, job) # Null
                  THEN <<get_output_url(j, job)>> ELSE Null,
   error_message |-> IF job.status = "error" THEN <<job.error_message>> ELSE Null]

\* mutant: a job of another user is refused, not hidden
job_status_response_forbidden(u, j) ==
  IF j \in Existing /\ jobs[j].user = u
  THEN Response("job_status", u, 200, "", status_payload(j, jobs[j]))
  ELSE IF j \in Existing
  THEN Response("job_status", u, 403, "Forbidden", 0)
  ELSE Response("job_status", u, 404, "Job not found", 0)

job_status_response(u, j) ==
  IF j \in Existing /\ jobs[j].user = u
  THEN Response("job_status", u, 200, "", status_payload(j, jobs[j]))
  ELSE Response("job_status", u, 404, "Job not found", 0)

\* mutant: a poll of a finished job marks the row as seen
job_status_marks_seen(u, j) ==
  /\ resp' = job_status_response(u, j)
  /\ IF j \in Existing /\ jobs[j].user = u /\ jobs[j].status \in {"done", "error"}
     THEN jobs' = [jobs EXCEPT ![j].message = "seen"]
     ELSE UNCHANGED jobs
  /\ UNCHANGED <<users, now, proc, codes, lforms, grants, MODELS_CACHE, loader, loads, nextId, files, inflight, sessions, nextSid,
                 runner, rjob, log>>

job_status(u, j) ==
  /\ resp' = job_status_response(u, j)
  /\ UNCHANGED <<users, now, proc, codes, lforms, grants, MODELS_CACHE, loader, loads, jobs, nextId, files, inflight, sessions, nextSid,
                 runner, rjob, log>>

\* --------------------------------------------------------------- CSV import
\* create_csv_import_session (lines 781-859)
create_csv_import_session_decision(u, file, raw_name) ==
  LET user == users[u] IN
  IF file = NoFile THEN Response("create_csv_import_session", u, 400, "file", 0)
  ELSE IF Lower(file.ext) # ".csv"
  THEN Response("create_csv_import_session", u, 400, "extension", 0)
  ELSE IF ~is_premium(user) /\ user.max_log_rows > 0 /\ ~file.readable
  THEN Response("create_csv_import_session", u, 500, "decode", 0)
  ELSE IF ~is_premium(user) /\ user.max_log_rows > 0
          /\ csv_line_count(file) > user.max_log_rows
  THEN Response("create_csv_import_session", u, 403, "rows", csv_line_count(file))
  ELSE IF ~is_premium(user) /\ user.max_projects > 0
          /\ project_count(u) >= user.max_projects
  THEN Response("create_csv_import_session", u, 403, "projects", user.max_projects)
  ELSE NoResp

create_csv_import_session(u, file, raw_name) ==
  LET d == create_csv_import_session_decision(u, file, raw_name)
      project_name == IF Strip(raw_name) = <<>> THEN file.stem ELSE Strip(raw_name)
  IN
  /\ IF d # NoResp
     THEN /\ resp' = d
          /\ UNCHANGED <<sessions, nextSid, files>>
     ELSE /\ nextSid <= MaxSessions
          /\ sessions' = [sessions EXCEPT ![nextSid] =
                [user |-> u, stem |-> file.stem, ext |-> file.ext,
                 over_limit |-> over_limit(users[u], file),
                 readable |-> file.readable, project_name |-> project_name]]
          /\ files' = files \cup {<<"session", nextSid>>}
          /\ nextSid' = nextSid + 1
          /\ resp' = Response("create_csv_import_session", u, 200, "", nextSid)
  /\ UNCHANGED <<users, now, proc, codes, lforms, grants, MODELS_CACHE, loader, loads, jobs, nextId, inflight, runner, rjob, log>>

\* session.original_filename.replace('.csv', '')
filename_without_csv(session) ==
  IF session.ext = ".csv" THEN session.stem ELSE session.stem \o <<session.ext>>

\* mutant: the import creates the job record and starts no thread
process_csv_import_unstarted(u, sid, mappings_ok, mining_method, cleaning_enabled) ==
  IF ~(sessions[sid] # NoSession /\ sessions[sid].user = u)
  THEN /\ resp' = Response("process_csv_import", u, 404, "session", 0)
       /\ UNCHANGED <<users, now, proc, codes, lforms, grants, MODELS_CACHE, loader, loads, jobs, nextId, files, inflight, sessions, nextSid,
                      runner, rjob, log>>
  ELSE IF ~mappings_ok
  THEN /\ resp' = Response("process_csv_import", u, 400, "mappings", 0)
       /\ UNCHANGED <<users, now, proc, codes, lforms, grants, MODELS_CACHE, loader, loads, jobs, nextId, files, inflight, sessions, nextSid,
                      runner, rjob, log>>
  ELSE IF ~sessions[sid].readable
  THEN /\ resp' = Response("process_csv_import", u, 500, "read_csv", 0)
       /\ UNCHANGED <<users, now, proc, codes, lforms, grants, MODELS_CACHE, loader, loads, jobs, nextId, files, inflight, sessions, nextSid,
                      runner, rjob, log>>
  ELSE LET session == sessions[sid]
           project_name == IF session.project_name # <<>> THEN session.project_name
                           ELSE filename_without_csv(session)
       IN
       /\ nextId <= MaxJobs
       /\ jobs' = [jobs EXCEPT ![nextId] =
                     NewJob(u, session.stem, session.ext, session.over_limit, project_name,
                            cleaning_enabled, mining_method, "imported")]
       /\ files' = (files \ {<<"session", sid>>}) \cup {<<"original", nextId>>}
       /\ sessions' = [sessions EXCEPT ![sid] = NoSession]
       /\ nextId' = nextId + 1
       /\ resp' = Response("process_csv_import", u, 200, "", nextId)
       /\ UNCHANGED <<users, now, proc, codes, lforms, grants, MODELS_CACHE, loader, loads, inflight, nextSid, runner, rjob, log>>

\* process_csv_import (lines 973-1063)
process_csv_import(u, sid, mappings_ok, mining_method, cleaning_enabled) ==
  IF ~(sessions[sid] # NoSession /\ sessions[sid].user = u)
  THEN /\ resp' = Response("process_csv_import", u, 404, "session", 0)
       /\ UNCHANGED <<users, now, proc, codes, lforms, grants, MODELS_CACHE, loader, loads, jobs, nextId, files, inflight, sessions, nextSid,
                      runner, rjob, log>>
  ELSE IF ~mappings_ok
  THEN /\ resp' = Response("process_csv_import", u, 400, "mappings", 0)
       /\ UNCHANGED <<users, now, proc, codes, lforms, grants, MODELS_CACHE, loader, loads, jobs, nextId, files, inflight, sessions, nextSid,
                      runner, rjob, log>>
  ELSE IF ~sessions[sid].readable
  THEN /\ resp' = Response("process_csv_import", u, 500, "read_csv", 0)
       /\ UNCHANGED <<users, now, proc, codes, lforms, grants, MODELS_CACHE, loader, loads, jobs, nextId, files, inflight, sessions, nextSid,
                      runner, rjob, log>>
  ELSE LET session == sessions[sid]
           project_name == IF session.project_name # <<>> THEN session.project_name
                           ELSE filename_without_csv(session)
       IN
       /\ nextId <= MaxJobs
       /\ jobs' = [jobs EXCEPT ![nextId] =
                     NewJob(u, session.stem, session.ext, session.over_limit, project_name,
                            cleaning_enabled, mining_method, "imported")]
       /\ files' = (files \ {<<"session", sid>>}) \cup {<<"original", nextId>>}
       /\ sessions' = [sessions EXCEPT ![sid] = NoSession]
       /\ runner' = [runner EXCEPT ![nextId] = "start"]
       /\ nextId' = nextId + 1
       /\ resp' = Response("process_csv_import", u, 200, "", nextId)
       /\ UNCHANGED <<users, now, proc, codes, lforms, grants, MODELS_CACHE, loader, loads, inflight, nextSid, rjob, log>>

\* ------------------------------------------------------------ delete_project
\* accounts/views.py delete_project (lines 213-284)
delete_project(u, project_name) ==
  LET doomed == {j \in Existing : jobs[j].user = u /\ jobs[j].project_name = project_name} IN
  /\ IF doomed = {}
     THEN /\ resp' = Response("delete_project", u, 404, "Project not found", 0)
          /\ UNCHANGED <<jobs, files>>
     ELSE /\ jobs' = [j \in JobIds |-> IF j \in doomed THEN NoJob ELSE jobs[j]]
          /\ files' = files \ ({<<"original", j>> : j \in doomed}
                               \cup {<<"svg", j>> : j \in {k \in doomed : jobs[k].output_map_svg}}
                               \cup {<<"image", j>> : j \in {k \in doomed : jobs[k].output_map_image}})
          /\ resp' = Response("delete_project", u, 200, "", Cardinality(doomed))
  /\ UNCHANGED <<users, now, proc, codes, lforms, grants, MODELS_CACHE, loader, loads, nextId, inflight, sessions, nextSid, runner, rjob, log>>

\* ------------------------------------------------------------------- inputs
\* ------------------------------------------------------------- admin site
\* EventLogJobAdmin (discovery/admin.py lines 29-56) under admin.site.urls: the change
\* form of a job posts status, progress, message and error_message, which are not
\* read-only, and ModelAdmin saves the row with them; user and the original file are
\* read-only; a file chosen for output_map_image is stored, an empty file input leaves
\* the field as it is
admin_change_job(j, form) ==
  /\ IF j \in Existing
     THEN /\ jobs' = [jobs EXCEPT ![j] =
                        [@ EXCEPT !.status = form.status, !.progress = form.progress,
                                  !.message = form.message,
                                  !.error_message = form.error_message,
                                  !.output_map_image = form.output_map_image \/ @]]
          /\ files' = IF form.output_map_image THEN files \cup {<<"image", j>>} ELSE files
          /\ resp' = Response("admin_change", "admin", 302, "", j)
     ELSE /\ resp' = Response("admin_change", "admin", 302, "missing", j)
          /\ UNCHANGED <<jobs, files>>
  /\ UNCHANGED <<users, now, proc, codes, lforms, grants, MODELS_CACHE, loader, loads, nextId, inflight, sessions, nextSid, runner, rjob, log>>

Licenses ==
  {[license_type |-> LICENSE_FREE, license_expires_at |-> Null],
   [license_type |-> LICENSE_PREMIUM, license_expires_at |-> Null],
   [license_type |-> LICENSE_PREMIUM, license_expires_at |-> <<-1>>]}

AllowedSets == {{}, {"alpha"}, {"heuristics", "inductive"}}

UserRow(lic, rows, projects, allowed) ==
  [license_type |-> lic.license_type, license_expires_at |-> lic.license_expires_at,
   max_log_rows |-> rows, max_projects |-> projects, allowed_algorithms |-> allowed]

\* a free account under every combination of limits; premium and expired-premium accounts
\* whose limit fields were cleared or left set
UserProfiles ==
  {UserRow([license_type |-> LICENSE_FREE, license_expires_at |-> Null], r, p, a) :
     r \in 0..MaxLimit, p \in 0..MaxLimit, a \in AllowedSets}
  \cup {UserRow(lic, 0, 0, {}) : lic \in Licenses}
  \cup {UserRow(lic, MaxLimit, MaxLimit, {"alpha"}) : lic \in Licenses}

File(stem, ext, rows, readable, trailing_nl) ==
  [stem |-> stem, ext |-> ext, rows |-> rows, readable |-> readable,
   trailing_nl |-> trailing_nl]

\* uploads: none, or a file of an accepted or another extension; the file pandas cannot
\* parse is a long one
UploadFiles ==
  {NoFile}
  \cup {File(<<"f">>, ".csv", n, TRUE, TRUE) : n \in 0..MaxRows}
  \cup {File(<<"f">>, ".xes", n, TRUE, TRUE) : n \in {0, MaxRows}}
  \cup {File(<<"f">>, ".txt", 0, TRUE, TRUE)}
  \cup {File(<<"f">>, ".csv", MaxRows, FALSE, TRUE)}

ImportFiles ==
  {NoFile} \cup {File(st, e, n, rd, nl) :
                   st \in {<<>>, <<"f">>}, e \in {".csv", ".CSV", ".xes"},
                   n \in 0..MaxRows, rd \in BOOLEAN, nl \in BOOLEAN}

RawNames == {<<" ">>, <<" ", "p">>, <<"q", " ">>}
ProjectNames == {<<"p">>, <<"q">>, <<"f">>}
Exceptions == {<<>>, <<"boom">>}

\* ----------------------------------------------------------- license codes
DurationDays == 1

LicenseCodeRow(duration_days, is_active) ==
  [is_active |-> is_active, is_used |-> FALSE, used_by |-> Null, used_at |-> Null,
   duration_days |-> duration_days]

\* the LicenseCode table: a lifetime code, a time-limited code and a deactivated code
CodeIds == {"K1", "K2", "K3"}

LicenseCodes ==
  [k \in CodeIds |->
     CASE k = "K1" -> LicenseCodeRow(Null, TRUE)
       [] k = "K2" -> LicenseCodeRow(<<DurationDays>>, TRUE)
       [] OTHER -> LicenseCodeRow(Null, FALSE)]

\* what a form posts in license_code: nothing, a code of the table, or a code that is not
SubmittedCodes == {""} \cup CodeIds \cup {"ZZ"}

\* mutant: the license is activated and the limits are left as they were
activate_premium_license_keeps_limits(user, duration_days) ==
  [user EXCEPT !.license_type = LICENSE_PREMIUM,
               !.license_expires_at =
                  IF duration_days # Null THEN <<now + duration_days[1]>> ELSE Null]

\* User.activate_premium_license: the row that its save() writes
activate_premium_license(user, duration_days) ==
  [user EXCEPT !.license_type = LICENSE_PREMIUM,
               !.license_expires_at =
                  IF duration_days # Null THEN <<now + duration_days[1]>> ELSE Null,
               !.max_log_rows = 0,
               !.allowed_algorithms = {},
               !.max_projects = 0]

\* LicenseCode.objects.get(code=..., is_active=True, is_used=False) finds a row
code_available(k) == k \in CodeIds /\ codes[k].is_active /\ ~codes[k].is_used

\* LicenseCode.use_code, lines 197-201: the two checks on the object it is called on
use_code_raises(code) == code.is_used \/ ~code.is_active

\* LicenseCode.use_code on the object `code` of row k, for user u
use_code(code, k, u) ==
  IF use_code_raises(code)
  THEN UNCHANGED <<users, codes, grants>>
  ELSE /\ users' = [users EXCEPT ![u] = activate_premium_license(@, code.duration_days)]
       /\ codes' = [codes EXCEPT ![k] = [code EXCEPT !.is_used = TRUE,
                                                      !.used_by = <<u>>,
                                                      !.used_at = <<now>>]]
       /\ grants' = grants \cup {<<u, k, "activate">>}

\* RegisterForm.save(commit=False): the unsaved user object
RegisterForm_save(license_code) ==
  IF license_code # ""
  THEN UserRow([license_type |-> LICENSE_PREMIUM, license_expires_at |-> Null],
               MaxLimit, MaxLimit, {})
  ELSE UserRow([license_type |-> LICENSE_FREE, license_expires_at |-> Null],
               MaxLimit, MaxLimit, {"alpha"})

\* register_view on a POST for the new username u: RegisterForm.clean, then
\* form.save(commit=False) and user.save()
register_view(u, license_code) ==
  /\ users[u] = NoUser
  /\ IF license_code # "" /\ ~code_available(license_code)
     THEN /\ resp' = Response("register", u, 200, "invalid license code", 0)
          /\ UNCHANGED <<users, grants>>
     ELSE /\ users' = [users EXCEPT ![u] = RegisterForm_save(license_code)]
          /\ grants' = IF license_code # ""
                       THEN grants \cup {<<u, license_code, "register">>}
                       ELSE grants
          /\ resp' = Response("register", u, 302, "", 0)
  /\ UNCHANGED <<now, proc, codes, lforms, MODELS_CACHE, loader, loads, jobs, nextId,
                 files, inflight, sessions, nextSid, runner, rjob, log>>

\* activate_license_view on a POST, up to form.is_valid(): the premium redirect and
\* LicenseActivationForm.clean_license_code, which keeps the code object it fetched
activate_license_view(u, license_code) ==
  /\ users[u] # NoUser
  /\ lforms[u] = Null
  /\ IF is_premium(users[u])
     THEN /\ resp' = Response("activate_license", u, 302, "already premium", 0)
          /\ UNCHANGED lforms
     ELSE IF ~code_available(license_code)
     THEN /\ resp' = Response("activate_license", u, 200, "invalid license code", 0)
          /\ UNCHANGED lforms
     ELSE /\ lforms' = [lforms EXCEPT ![u] =
                          <<[code |-> license_code, obj |-> codes[license_code]]>>]
          /\ resp' = NoResp
  /\ UNCHANGED <<users, now, proc, codes, grants, MODELS_CACHE, loader, loads, jobs,
                 nextId, files, inflight, sessions, nextSid, runner, rjob, log>>

\* activate_license_view from form.activate() on: use_code on the object the form holds
LicenseActivationForm_activate(u) ==
  /\ lforms[u] # Null
  /\ LET f == lforms[u][1] IN
       /\ use_code(f.obj, f.code, u)
       /\ resp' = IF use_code_raises(f.obj)
                  THEN Response("activate_license", u, 500, "ValueError", 0)
                  ELSE Response("activate_license", u, 302, "", 0)
  /\ lforms' = [lforms EXCEPT ![u] = Null]
  /\ UNCHANGED <<now, proc, MODELS_CACHE, loader, loads, jobs, nextId, files, inflight,
                 sessions, nextSid, runner, rjob, log>>

\* the clock of timezone.now() moves on
Tick ==
  /\ now < MaxTime
  /\ now' = now + 1
  /\ UNCHANGED <<users, proc, codes, lforms, grants, MODELS_CACHE, loader, loads, jobs, nextId, files, inflight,
                 sessions, nextSid, runner, rjob, log, resp>>

\* --------------------------------------------------------------------- Init
\* a thread that is not inside load_prediction_models, with what its last call gave
Idle(result, raised) == [pc |-> "idle", obj |-> 0, result |-> result, raised |-> raised]

InitSystem ==
  /\ now = 0
  /\ codes = LicenseCodes
  /\ lforms = [u \in Users |-> Null]
  /\ grants = {}
  /\ MODELS_CACHE = Null
  /\ loader = [t \in Threads |-> Idle(Null, FALSE)]
  /\ loads = 0
  /\ proc = [sys_path |-> <<>>, PATH |-> <<"/usr/bin">>]
  /\ jobs = [j \in JobIds |-> NoJob]
  /\ nextId = 1
  /\ files = {}
  /\ inflight = EmptyBag
  /\ sessions = [s \in SessionIds |-> NoSession]
  /\ nextSid = 1
  /\ runner = [j \in JobIds |-> "none"]
  /\ rjob = [j \in JobIds |-> NoJob]
  /\ log = [j \in JobIds |-> <<>>]
  /\ resp = NoResp

PremiumLifetime == UserRow([license_type |-> LICENSE_PREMIUM, license_expires_at |-> Null],
                           0, 0, {})

\* RegisterForm.save without a license code: free, row and project limits, alpha only
FreeDefault == UserRow([license_type |-> LICENSE_FREE, license_expires_at |-> Null],
                       MaxLimit, MaxLimit, {"alpha"})

\* ------------------------------------------------- the pipeline environment
\* one uploading user whose requests pass the checks; every stage may succeed or raise
InitPipeline ==
  /\ users = [u \in Users |-> IF u = "ua" THEN PremiumLifetime ELSE FreeDefault]
  /\ InitSystem

\* a CSV log cleaned and mined by Alpha Miner, an XES log mined without cleaning by
\* Heuristics Miner
PipelineRequests ==
  {[file |-> File(<<"f">>, ".csv", 1, TRUE, TRUE), cleaning_enabled |-> TRUE,
    mining_method |-> "alpha"],
   [file |-> File(<<"f">>, ".xes", 1, TRUE, TRUE), cleaning_enabled |-> FALSE,
    mining_method |-> "heuristics"]}

\* job ids are handed out up to MaxJobs: a request is taken while one is left
IdsLeft == nextId + BagCardinality(inflight) <= MaxJobs

CreateJob ==
  /\ IdsLeft
  /\ \E rq \in PipelineRequests :
       create_job("ua", rq.file, rq.cleaning_enabled, rq.mining_method, <<"p">>)

CreateJobCommit == \E r \in BagToSet(inflight) : create_job_commit(r)

ProcessJobStart == \E j \in JobIds : process_job_start(j)

ProcessJobLoad ==
  \E j \in JobIds, outcome \in {"ok", "raise"}, e \in Exceptions :
    process_job_load(j, outcome, e)

ProcessJobLoaded == \E j \in JobIds : process_job_loaded(j)

ProcessJobClean ==
  \E j \in JobIds, outcome \in {"ok", "raise"}, e \in Exceptions :
    process_job_clean(j, outcome, e)

ProcessJobCleaned == \E j \in JobIds : process_job_cleaned(j)

ProcessJobMine ==
  \E j \in JobIds, outcome \in {"ok", "raise"}, e \in Exceptions :
    process_job_mine(j, outcome, e)

ProcessJobVisualize ==
  \E j \in JobIds, outcome \in VisualizeOutcomes : process_job_visualize(j, outcome)

ProcessJobDone == \E j \in JobIds : process_job_done(j)

JobStatus == \E u \in Users, j \in JobIds : job_status(u, j)

NextPipeline ==
  \/ CreateJob
  \/ CreateJobCommit
  \/ ProcessJobStart
  \/ ProcessJobLoad
  \/ ProcessJobLoaded
  \/ ProcessJobClean
  \/ ProcessJobCleaned
  \/ ProcessJobMine
  \/ ProcessJobVisualize
  \/ ProcessJobDone
  \/ JobStatus

SpecPipeline == InitPipeline /\ [][NextPipeline]_vars

\* ---------------------------------------------------- the quota environment
\* user ua holds any license profile and sends any upload; user ub is a free user on the
\* registration defaults whose jobs share the table; MaxUploads requests are admitted and
\* no thread is scheduled
InitQuota ==
  /\ users \in {[u \in Users |-> IF u = "ua" THEN row ELSE FreeDefault] :
                  row \in UserProfiles}
  /\ InitSystem

UploadsLeft == nextId + BagCardinality(inflight) <= MaxUploads

QuotaCreateJob ==
  \E file \in UploadFiles, mining_method \in ALGORITHM_CHOICES, raw_name \in RawNames :
    /\ UploadsLeft \/ create_job_decision("ua", file, raw_name, mining_method) # NoResp
    /\ create_job("ua", file, FALSE, mining_method, raw_name)

OtherUpload == File(<<"f">>, ".csv", 0, TRUE, TRUE)

QuotaCreateJobOther ==
  /\ UploadsLeft \/ create_job_decision("ub", OtherUpload, <<" ", "p">>, "alpha") # NoResp
  /\ create_job("ub", OtherUpload, FALSE, "alpha", <<" ", "p">>)

NextQuota ==
  \/ QuotaCreateJob
  \/ QuotaCreateJobOther
  \/ CreateJobCommit

SpecQuota == InitQuota /\ [][NextQuota]_vars

\* -------------------------------------------------- the project environment
\* two free users under a project limit send uploads and CSV imports of short logs and
\* delete projects, requests overlapping; no thread is scheduled
InitProjects ==
  /\ users \in {[u \in Users |->
                    IF u = "ua"
                    THEN UserRow([license_type |-> LICENSE_FREE, license_expires_at |-> Null],
                                 0, p, {})
                    ELSE FreeDefault] : p \in 1..MaxLimit}
  /\ InitSystem

ProjectsCreateJob ==
  \E u \in Users, raw_name \in {<<" ", "p">>, <<"q", " ">>} :
    /\ IdsLeft \/ create_job_decision(u, OtherUpload, raw_name, "alpha") # NoResp
    /\ create_job(u, OtherUpload, FALSE, "alpha", raw_name)

ProjectsCreateCsvImportSession ==
  \E raw_name \in {<<>>, <<"q", " ">>} :
    create_csv_import_session("ua", OtherUpload, raw_name)

ProjectsProcessCsvImport ==
  \E sid \in SessionIds, mappings_ok \in BOOLEAN :
    process_csv_import("ua", sid, mappings_ok, "alpha", FALSE)

ProjectsDeleteProject ==
  \E u \in Users, project_name \in ProjectNames : delete_project(u, project_name)

NextProjects ==
  \/ ProjectsCreateJob
  \/ CreateJobCommit
  \/ ProjectsCreateCsvImportSession
  \/ ProjectsProcessCsvImport
  \/ ProjectsDeleteProject

SpecProjects == InitProjects /\ [][NextProjects]_vars

\* ================================================================== claims
\* the rows one process_job thread has saved, in order
Saves(j) ==
  LET IsSave(en) == en.kind = "save"
      entries == SelectSeq(log[j], IsSave)
  IN  [i \in 1..Len(entries) |-> entries[i].row]

ProgressWritten(j) == [i \in 1..Len(Saves(j)) |-> Saves(j)[i].progress]

\* the stage outcomes one process_job thread has seen
StageOutcome(j, stage, outcome) ==
  \E i \in 1..Len(log[j]) :
    log[j][i].kind = "stage" /\ log[j][i].stage = stage /\ log[j][i].outcome = outcome

Contains(s, t) == \E i \in 1..(Len(s) - Len(t) + 1) : SubSeq(s, i, i + Len(t) - 1) = t

StatusMoves == {<<"pending", "running">>, <<"running", "done">>, <<"running", "error">>}

\* C1: in every step of create_job, process_job and job_status a job row is created in
\* pending, an existing row stays, and its status either stays or moves along
\* pending -> running, running -> done or running -> error; nothing leaves done or error.
C1_StatusMoves ==
  [][\A j \in JobIds :
       /\ (jobs[j] = NoJob /\ jobs'[j] # NoJob) => jobs'[j].status = "pending"
       /\ jobs[j] # NoJob =>
            /\ jobs'[j] # NoJob
            /\ \/ jobs'[j].status = jobs[j].status
               \/ <<jobs[j].status, jobs'[j].status>> \in StatusMoves]_vars

C1_Witness ==
  \E j, k \in JobIds :
    /\ jobs[j] # NoJob /\ jobs[j].status = "done"
    /\ jobs[k] # NoJob /\ jobs[k].status = "error"
    /\ runner[j] = "finished" /\ runner[k] = "finished"

\* C2: from one write of a job row to the next the progress does not decrease while
\* the status stays running; a write that sets done writes progress 100; a write that
\* sets error writes progress 0 and a non-empty error_message.
C2_ProgressWrites ==
  [][\A j \in JobIds :
       (jobs[j] # NoJob /\ jobs'[j] # NoJob /\ jobs'[j] # jobs[j]) =>
         /\ (jobs[j].status = "running" /\ jobs'[j].status = "running")
              => jobs'[j].progress >= jobs[j].progress
         /\ jobs'[j].status = "done" => jobs'[j].progress = 100
         /\ jobs'[j].status = "error"
              => jobs'[j].progress = 0 /\ jobs'[j].error_message # <<>>]_vars

C2_Witness ==
  \E j \in JobIds :
    /\ jobs[j] # NoJob /\ jobs[j].status = "error" /\ jobs[j].progress = 0
    /\ Len(Saves(j)) >= 4

\* C3: a job that ends in done was written at exactly the checkpoints
\* 10, 30, 40, 60, 70, 90, 100 when cleaning_enabled and 10, 30, 70, 90, 100 otherwise.
C3_Checkpoints ==
  \A j \in JobIds :
    (jobs[j] # NoJob /\ jobs[j].status = "done") =>
      ProgressWritten(j) = IF jobs[j].cleaning_enabled
                           THEN <<10, 30, 40, 60, 70, 90, 100>>
                           ELSE <<10, 30, 70, 90, 100>>

C3_Witness ==
  \E j, k \in JobIds :
    /\ jobs[j] # NoJob /\ jobs[j].status = "done" /\ jobs[j].cleaning_enabled
    /\ jobs[k] # NoJob /\ jobs[k].status = "done" /\ ~jobs[k].cleaning_enabled

\* C4: once the load, clean or discover stage of a job has raised, the job row is in
\* error with progress 0 and an error_message that contains the exception text, and
\* the thread has returned.
C4_StageFailureRecorded ==
  \A j \in JobIds : \A i \in 1..Len(log[j]) :
    (log[j][i].kind = "stage" /\ log[j][i].outcome = "raise"
       /\ log[j][i].stage \in {"load", "clean", "discover"}) =>
      /\ jobs[j] # NoJob
      /\ jobs[j].status = "error"
      /\ jobs[j].progress = 0
      /\ Contains(jobs[j].error_message, log[j][i].exc)
      /\ runner[j] = "finished"

C4_Witness ==
  /\ \E j \in JobIds : StageOutcome(j, "load", "raise") /\ jobs[j].status = "error"
  /\ \E j \in JobIds : StageOutcome(j, "discover", "raise") /\ jobs[j].status = "error"
                       /\ Contains(jobs[j].error_message, <<"boom">>)

\* C5: once the visualization block of a job has raised, no SVG of the job is stored,
\* the row never is in error, job_status of the owner reports no output_url, and when
\* the thread has returned the row is done with progress 100.
C5_RenderFailureTolerated ==
  \A j \in JobIds :
    StageOutcome(j, "visualize", "raise") =>
      /\ jobs[j] # NoJob
      /\ jobs[j].status # "error"
      /\ <<"svg", j>> \notin files
      /\ ~jobs[j].output_map_svg
      /\ job_status_response(jobs[j].user, j).status = 200
      /\ job_status_response(jobs[j].user, j).detail.output_url = Null
      /\ runner[j] = "finished" => (jobs[j].status = "done" /\ jobs[j].progress = 100)

C5_Witness ==
  \E j \in JobIds :
    /\ StageOutcome(j, "visualize", "raise")
    /\ runner[j] = "finished"
    /\ jobs[j].status = "done"
    /\ resp = job_status_response(jobs[j].user, j)

\* ------------------------------------------------------------ quota claims
\* ------------------------------------------------ the fail-open environment
\* a free user under a row limit uploads a short CSV, a long CSV and a long CSV that
\* pandas cannot parse; load_event_log reads the stored file with the same parser, so it
\* raises on the file the pre-scan raised on
UnparseableUpload == File(<<"g">>, ".csv", MaxRows, FALSE, TRUE)

LongUpload == File(<<"f">>, ".csv", MaxRows, TRUE, TRUE)

InitFailOpen ==
  /\ users = [u \in Users |->
                IF u = "ua"
                THEN UserRow([license_type |-> LICENSE_FREE, license_expires_at |-> Null],
                             MaxLimit, 0, {})
                ELSE FreeDefault]
  /\ InitSystem

FailOpenCreateJob ==
  \E file \in {OtherUpload, LongUpload, UnparseableUpload} :
    /\ IdsLeft \/ create_job_decision("ua", file, <<" ", "p">>, "alpha") # NoResp
    /\ create_job("ua", file, FALSE, "alpha", <<" ", "p">>)

FailOpenLoad ==
  \E j \in JobIds, outcome \in {"ok", "raise"} :
    /\ runner[j] = "load"
    /\ rjob[j].original_filename = UnparseableUpload.stem => outcome = "raise"
    /\ process_job_load(j, outcome, <<"boom">>)

NextFailOpen ==
  \/ FailOpenCreateJob
  \/ CreateJobCommit
  \/ ProcessJobStart
  \/ FailOpenLoad
  \/ ProcessJobLoaded
  \/ ProcessJobMine
  \/ ProcessJobVisualize
  \/ ProcessJobDone
  \/ JobStatus

SpecFailOpen == InitFailOpen /\ [][NextFailOpen]_vars

\* ------------------------------------------------------------ quota claims

\* -------------------------------------------------- the lifecycle environment
\* a premium user uploads CSV logs into one project, polls the jobs and deletes the
\* project, while a staff user edits job rows in the admin site; discovery and rendering
\* succeed or raise
LifecycleUpload == File(<<"f">>, ".csv", 1, TRUE, TRUE)

\* the change form as a staff user posts it: the job put back to pending, or a PNG of
\* the map attached to a job that is done
AdminForms ==
  {[status |-> "pending", progress |-> 0, message |-> "edited", error_message |-> <<>>,
    output_map_image |-> FALSE],
   [status |-> "done", progress |-> 100, message |-> "complete", error_message |-> <<>>,
    output_map_image |-> TRUE]}

LifecycleCreateJob ==
  /\ IdsLeft
  /\ create_job("ua", LifecycleUpload, FALSE, "alpha", <<"p">>)

\* the log loads unless the file is gone
LifecycleLoad ==
  \E j \in JobIds, outcome \in {"ok", "raise"} :
    /\ outcome = "raise" => <<"original", j>> \notin files
    /\ process_job_load(j, outcome, <<"boom">>)

LifecycleMine ==
  \E j \in JobIds, outcome \in {"ok", "raise"} : process_job_mine(j, outcome, <<"boom">>)

LifecycleVisualize ==
  \E j \in JobIds, outcome \in {"stored", "raise"} : process_job_visualize(j, outcome)

LifecycleJobStatus == \E j \in JobIds : job_status("ua", j)

LifecycleDeleteProject == delete_project("ua", <<"p">>)

\* the staff user puts back jobs that are being mined and attaches a PNG to jobs that
\* are done
AdminChangeJob ==
  \E j \in JobIds, form \in AdminForms :
    /\ j \in Existing
         => IF form.output_map_image THEN jobs[j].status = "done" ELSE runner[j] = "mine"
    /\ admin_change_job(j, form)

NextLifecycle ==
  \/ LifecycleCreateJob
  \/ CreateJobCommit
  \/ ProcessJobStart
  \/ LifecycleLoad
  \/ ProcessJobLoaded
  \/ LifecycleMine
  \/ LifecycleVisualize
  \/ ProcessJobDone
  \/ LifecycleJobStatus
  \/ LifecycleDeleteProject
  \/ AdminChangeJob

SpecLifecycle == InitPipeline /\ [][NextLifecycle]_vars

\* --------------------------------------------------- the creation environment
\* a premium user creates jobs through both endpoints, with requests that are taken and
\* requests that are rejected (no file, no such session, no column mapping), and the
\* threads run to their end
CreationCreateJob ==
  \E file \in {LifecycleUpload, NoFile} :
    /\ IdsLeft \/ create_job_decision("ua", file, <<"p">>, "alpha") # NoResp
    /\ create_job("ua", file, FALSE, "alpha", <<"p">>)

CreationCreateCsvImportSession == create_csv_import_session("ua", LifecycleUpload, <<"q">>)

CreationProcessCsvImport ==
  \E sid \in SessionIds, mappings_ok \in BOOLEAN :
    /\ nextId + BagCardinality(inflight) <= MaxJobs \/ sessions[sid] = NoSession \/ ~mappings_ok
    /\ process_csv_import("ua", sid, mappings_ok, "alpha", FALSE)

NextCreation ==
  \/ CreationCreateJob
  \/ CreateJobCommit
  \/ CreationCreateCsvImportSession
  \/ CreationProcessCsvImport
  \/ ProcessJobStart
  \/ LifecycleLoad
  \/ ProcessJobLoaded
  \/ LifecycleMine
  \/ ProcessJobVisualize
  \/ ProcessJobDone

SpecCreation == InitPipeline /\ [][NextCreation]_vars

\* ---------------------------------------------- the pipeline under fair scheduling
\* a premium user uploads CSV logs to be cleaned and polls them; every stage call
\* returns or raises, and the operating system schedules every started thread again and
\* again
FairCreateJob ==
  /\ IdsLeft
  /\ create_job("ua", LifecycleUpload, TRUE, "alpha", <<"p">>)

\* one step of the process_job thread of job j
ProcessJobStep(j) ==
  \/ process_job_start(j)
  \/ process_job_load(j, "ok", <<>>)
  \/ process_job_loaded(j)
  \/ \E outcome \in {"ok", "raise"} : process_job_clean(j, outcome, <<"boom">>)
  \/ process_job_cleaned(j)
  \/ \E outcome \in {"ok", "raise"} : process_job_mine(j, outcome, <<"boom">>)
  \/ \E outcome \in {"stored", "raise"} : process_job_visualize(j, outcome)
  \/ process_job_done(j)

FairProcessJob == \E j \in JobIds : ProcessJobStep(j)

NextFair ==
  \/ FairCreateJob
  \/ CreateJobCommit
  \/ FairProcessJob
  \/ LifecycleJobStatus

FairThreads == \A j \in JobIds : WF_vars(ProcessJobStep(j))

SpecFair == InitPipeline /\ [][NextFair]_vars /\ FairThreads

\* ----------------------------------------------------- the import environment
\* a free user allowed Alpha Miner only, under a project limit, creates jobs by upload
\* and by CSV import, naming any algorithm, from files named .csv and .CSV; the threads
\* run
InitImport ==
  /\ users = [u \in Users |-> FreeDefault]
  /\ InitSystem

ImportUploads == {File(<<"f">>, e, 0, TRUE, TRUE) : e \in {".csv", ".CSV"}}

ImportCreateJob ==
  \E file \in ImportUploads, mining_method \in ALGORITHM_CHOICES :
    /\ IdsLeft \/ create_job_decision("ua", file, <<"p">>, mining_method) # NoResp
    /\ create_job("ua", file, FALSE, mining_method, <<"p">>)

ImportCreateCsvImportSession ==
  \E file \in ImportUploads : create_csv_import_session("ua", file, <<"p">>)

ImportProcessCsvImport ==
  \E sid \in SessionIds, mining_method \in ALGORITHM_CHOICES :
    /\ nextId + BagCardinality(inflight) <= MaxJobs \/ sessions[sid] = NoSession
    /\ process_csv_import("ua", sid, TRUE, mining_method, FALSE)

ImportLoad ==
  \E j \in JobIds, outcome \in {"ok", "raise"} : process_job_load(j, outcome, <<"boom">>)

NextImport ==
  \/ ImportCreateJob
  \/ CreateJobCommit
  \/ ImportCreateCsvImportSession
  \/ ImportProcessCsvImport
  \/ ProcessJobStart
  \/ ImportLoad
  \/ ProcessJobLoaded
  \/ LifecycleMine
  \/ LifecycleVisualize
  \/ ProcessJobDone

SpecImport == InitImport /\ [][NextImport]_vars

\* ------------------------------------------------------ prediction models
\* the threads that are reading model files
Loading == {t \in Threads : loader[t].pc \in {"preprocessor", "ensemble", "lstm"}}

\* load_prediction_models, lines 68-72: the test of the cache on entry
load_prediction_models(t) ==
  /\ loader[t].pc = "idle"
  /\ MODELS_CACHE = Null => loads + Cardinality(Loading) < MaxLoads
  /\ loader' = [loader EXCEPT ![t] =
                  IF MODELS_CACHE # Null
                  THEN Idle(MODELS_CACHE, FALSE)
                  ELSE [pc |-> "preprocessor", obj |-> 0, result |-> Null, raised |-> FALSE]]
  /\ UNCHANGED <<MODELS_CACHE, loads>>

\* one of the three loading blocks: the file is missing or unreadable and the call
\* raises, or it is read and the call goes on
load_stage(t, stage, next, outcome) ==
  /\ loader[t].pc = stage
  /\ loader' = [loader EXCEPT ![t] =
                  IF outcome = "raise" THEN Idle(Null, TRUE) ELSE [@ EXCEPT !.pc = next]]
  /\ UNCHANGED <<MODELS_CACHE, loads>>

\* lines 76-83
load_preprocessor(t, outcome) == load_stage(t, "preprocessor", "ensemble", outcome)

\* lines 85-92
load_ensemble(t, outcome) == load_stage(t, "ensemble", "lstm", outcome)

\* lines 94-115: the last of the files; from here on the thread holds a complete set
load_lstm(t, outcome) ==
  /\ loader[t].pc = "lstm"
  /\ IF outcome = "raise"
     THEN /\ loader' = [loader EXCEPT ![t] = Idle(Null, TRUE)]
          /\ UNCHANGED loads
     ELSE /\ loader' = [loader EXCEPT ![t] = [@ EXCEPT !.pc = "store", !.obj = loads + 1]]
          /\ loads' = loads + 1
  /\ UNCHANGED MODELS_CACHE

\* lines 117-124: a new dict is bound to _MODELS_CACHE
cache_models(t) ==
  /\ loader[t].pc = "store"
  /\ MODELS_CACHE' = <<loader[t].obj>>
  /\ loader' = [loader EXCEPT ![t] = [@ EXCEPT !.pc = "return"]]
  /\ UNCHANGED loads

\* line 127: `return _MODELS_CACHE` reads the global again
return_models(t) ==
  /\ loader[t].pc = "return"
  /\ loader' = [loader EXCEPT ![t] = Idle(MODELS_CACHE, FALSE)]
  /\ UNCHANGED <<MODELS_CACHE, loads>>

\* the threads of the server call load_prediction_models at any time
PredictionUnchanged ==
  UNCHANGED <<users, now, proc, codes, lforms, grants, jobs, nextId, files, inflight,
              sessions, nextSid, runner, rjob, log, resp>>

InitPrediction ==
  /\ users = [u \in Users |-> FreeDefault]
  /\ InitSystem

LoadOutcomes == {"ok", "raise"}

LoadPredictionModels == \E t \in Threads : load_prediction_models(t) /\ PredictionUnchanged

LoadPreprocessor ==
  \E t \in Threads, outcome \in LoadOutcomes : load_preprocessor(t, outcome) /\ PredictionUnchanged

LoadEnsemble ==
  \E t \in Threads, outcome \in LoadOutcomes : load_ensemble(t, outcome) /\ PredictionUnchanged

LoadLstm ==
  \E t \in Threads, outcome \in LoadOutcomes : load_lstm(t, outcome) /\ PredictionUnchanged

CacheModels == \E t \in Threads : cache_models(t) /\ PredictionUnchanged

ReturnModels == \E t \in Threads : return_models(t) /\ PredictionUnchanged

NextPrediction ==
  \/ LoadPredictionModels
  \/ LoadPreprocessor
  \/ LoadEnsemble
  \/ LoadLstm
  \/ CacheModels
  \/ ReturnModels

SpecPrediction == InitPrediction /\ [][NextPrediction]_vars

\* -------------------------------------------------- the license environment
\* nobody is registered; both usernames may register with or without a code and activate
\* a code later, user ua uploads; the clock runs up to MaxTime
InitLicense ==
  /\ users = [u \in Users |-> NoUser]
  /\ InitSystem

LicenseUpload == File(<<"f">>, ".csv", MaxRows, TRUE, TRUE)

RegisterView == \E u \in Users, license_code \in SubmittedCodes : register_view(u, license_code)

ActivateLicenseView ==
  \E u \in Users, license_code \in CodeIds \cup {"ZZ"} : activate_license_view(u, license_code)

ActivateLicenseUse == \E u \in Users : LicenseActivationForm_activate(u)

LicenseCreateJob ==
  \E mining_method \in MINING_METHOD_CHOICES :
    /\ users["ua"] # NoUser
    /\ UploadsLeft \/ create_job_decision("ua", LicenseUpload, <<"p">>, mining_method) # NoResp
    /\ create_job("ua", LicenseUpload, FALSE, mining_method, <<"p">>)

NextLicense ==
  \/ RegisterView
  \/ ActivateLicenseView
  \/ ActivateLicenseUse
  \/ Tick
  \/ LicenseCreateJob
  \/ CreateJobCommit

SpecLicense == InitLicense /\ [][NextLicense]_vars

\* the distinct non-empty project names among the job records a user owns
OwnProjects(u) ==
  {jobs[j].project_name :
     j \in {k \in JobIds : jobs[k] # NoJob /\ jobs[k].user = u /\ jobs[k].project_name # <<>>}}

ProjectLimitReached(u) ==
  /\ ~is_premium(users[u])
  /\ users[u].max_projects > 0
  /\ Cardinality(OwnProjects(u)) >= users[u].max_projects

AlgorithmAllowed(user, method) ==
  is_premium(user) \/ user.allowed_algorithms = {} \/ method \in user.allowed_algorithms

\* the requests taken by the step: those that passed the checks and await their insert
Admitted ==
  IF inflight' = inflight THEN {}
  ELSE {r \in BagToSet(inflight') : CopiesIn(r, inflight') > CopiesIn(r, inflight)}

QuotaDenials == {"algorithm", "projects", "rows"}

\* C6: whenever create_job answers 403 because the algorithm, project or row check
\* denies, the job records, the stored files and the started threads are exactly what
\* they were before the request, and the request is not carried on.
C6_DenialHasNoEffect ==
  [][(resp'.op = "create_job" /\ resp'.status = 403 /\ resp'.error \in QuotaDenials)
       => /\ jobs' = jobs
          /\ files' = files
          /\ runner' = runner
          /\ inflight' = inflight
          /\ nextId' = nextId]_vars

\* a row-limit denial answered while a job record, its file and its thread exist
C6_Witness ==
  /\ resp.op = "create_job" /\ resp.status = 403 /\ resp.error = "rows"
  /\ \E j \in JobIds : jobs[j] # NoJob /\ <<"original", j>> \in files /\ runner[j] = "start"

\* C7: in every reachable state, whatever the interleaving of create_job,
\* create_csv_import_session, process_csv_import and delete_project requests, every
\* non-premium user with max_projects > 0 owns job records of at most max_projects
\* distinct non-empty project names.
C7_ProjectLimitHeld ==
  \A u \in Users :
    (~is_premium(users[u]) /\ users[u].max_projects > 0)
      => Cardinality(OwnProjects(u)) <= users[u].max_projects

\* C8: the project-limit check allows every premium user; for a non-premium user it
\* denies if and only if max_projects > 0 and the user's own job records carry at least
\* max_projects distinct non-empty project names, other users' records not counting. A
\* request the check denies gets a 403 and creates no job record; a request that goes
\* past the check, to the row check or to the insert, is from a user not at the limit.
C8_ProjectLimitDecision ==
  [][/\ (resp'.op = "create_job" /\ resp'.error = "projects")
          => /\ resp'.status = 403
             /\ ProjectLimitReached(resp'.user)
             /\ jobs' = jobs /\ inflight' = inflight
     /\ (resp'.op = "create_job" /\ resp'.error = "rows")
          => ~ProjectLimitReached(resp'.user)
     /\ \A r \in Admitted : ~ProjectLimitReached(r.user)]_vars

\* a user who owns job records of max_projects projects is denied
C8_Witness ==
  /\ resp.op = "create_job" /\ resp.status = 403 /\ resp.error = "projects"
  /\ resp.user = "ua"
  /\ Cardinality(OwnProjects("ua")) = users["ua"].max_projects

\* C9: the algorithm check allows every premium user for every method create_job
\* accepts; a non-premium user is allowed if and only if the method is in
\* allowed_algorithms or allowed_algorithms is empty; a denial is a 403 that lists
\* exactly the algorithms the same user would be allowed.
C9_AlgorithmDecision ==
  LET listed(u) == {Title(a) : a \in {b \in ALGORITHM_CHOICES : AlgorithmAllowed(users[u], b)}}
  IN
  /\ \A u \in Users, m \in MINING_METHOD_CHOICES :
       /\ (algorithm_check(u, m) = NoResp) <=> AlgorithmAllowed(users[u], m)
       /\ algorithm_check(u, m) # NoResp
            => /\ algorithm_check(u, m).status = 403
               /\ algorithm_check(u, m).detail.allowed = listed(u)
  /\ (resp.op = "create_job" /\ resp.error = "algorithm")
       => /\ resp.status = 403
          /\ \E m \in MINING_METHOD_CHOICES :
               Title(m) = resp.detail.method /\ ~AlgorithmAllowed(users[resp.user], m)
          /\ resp.detail.allowed = listed(resp.user)
  /\ \A r \in BagToSet(inflight) : AlgorithmAllowed(users[r.user], r.mining_method)

\* a user allowed Heuristics and Inductive Miner asked for Alpha Miner
C9_Witness ==
  /\ resp.op = "create_job" /\ resp.status = 403 /\ resp.error = "algorithm"
  /\ resp.detail.method = "Alpha"
  /\ resp.detail.allowed = {"Heuristics", "Inductive"}

\* C10: no job record is ever created by create_job for a non-premium user with
\* max_log_rows > 0 from a log, .csv or .xes, that has more than max_log_rows rows:
\* create_job denies such an upload.
C10_NoOversizeJob ==
  \A j \in JobIds :
    (jobs[j] # NoJob /\ jobs[j].message = "created") => ~jobs[j].over_limit

\* C11: for a non-premium user with max_log_rows = N > 0 the row check of create_job lets
\* a CSV of exactly N data rows through; a CSV of N+1 rows gets a 403 that states the
\* row count N+1; a CSV of more than N rows is denied after at most N+1 rows were read,
\* so no CSV of more than N rows is carried on to the insert.
C11_RowBoundary ==
  /\ \A u \in Users, file \in UploadFiles \ {NoFile} :
       (file.ext = ".csv" /\ file.readable /\ ~is_premium(users[u])
        /\ users[u].max_log_rows > 0)
         => LET N == users[u].max_log_rows
                check == row_limit_check(u, file)
            IN  /\ file.rows = N => check = NoResp
                /\ file.rows = N + 1 => (check.status = 403 /\ check.detail = file.rows)
                /\ file.rows > N => /\ check.status = 403
                                    /\ check.error = "rows"
                                    /\ check.detail = read_csv_nrows(file, N + 1)
                                    /\ check.detail <= N + 1
  /\ (resp.op = "create_job" /\ resp.error = "rows")
       => /\ resp.status = 403
          /\ ~is_premium(users[resp.user])
          /\ users[resp.user].max_log_rows > 0
          /\ resp.detail = users[resp.user].max_log_rows + 1
  /\ \A r \in BagToSet(inflight) : r.ext = ".csv" => ~r.over_limit

\* a user limited to one row is told of the two rows that were read
C11_Witness ==
  /\ resp.op = "create_job" /\ resp.status = 403 /\ resp.error = "rows"
  /\ users[resp.user].max_log_rows = 1
  /\ resp.detail = 2

\* C12: when the row pre-scan of create_job raises, the request is decided as if the
\* row check had allowed it: the job record is created pending with progress 0 and its
\* runner started, and the parse failure shows later as the job's error state.
C12_PreScanFailOpen ==
  /\ \A u \in Users, m \in ALGORITHM_CHOICES, raw_name \in RawNames :
       /\ row_limit_check(u, UnparseableUpload) = NoResp
       /\ create_job_decision(u, UnparseableUpload, raw_name, m)
            = create_job_decision(u, OtherUpload, raw_name, m)
  /\ \A j \in JobIds :
       (jobs[j] # NoJob /\ jobs[j].original_filename = UnparseableUpload.stem)
         => /\ runner[j] # "none"
            /\ runner[j] = "start" => (jobs[j].status = "pending" /\ jobs[j].progress = 0)
            /\ runner[j] = "load" => jobs[j].status = "running"
            /\ runner[j] \notin {"start", "load"}
                 => /\ runner[j] = "finished"
                    /\ jobs[j].status = "error"
                    /\ Contains(jobs[j].error_message, <<"boom">>)

\* the job of the unparseable upload has failed at loading
C12_Witness ==
  \E j \in JobIds :
    /\ jobs[j] # NoJob
    /\ jobs[j].original_filename = UnparseableUpload.stem
    /\ ~jobs[j].over_limit
    /\ jobs[j].status = "error"
    /\ StageOutcome(j, "load", "raise")

\* the job table is empty and no request is under way
Fresh == nextId = 1 /\ inflight = EmptyBag /\ resp = NoResp

\* the step inserts a job record, leaves no request under way and does not follow a
\* denial; every job table that can be reached is reached by such a step, since a
\* request that never inserts has no effect on the others
Inserted == nextId' # nextId /\ inflight' = EmptyBag /\ resp.status \notin {400, 403}

\* what create_job requires of a request before it looks at the license
InvalidRequest(file, raw_name, mining_method) ==
  \/ file = NoFile
  \/ file.ext \notin {".xes", ".csv"}
  \/ Strip(raw_name) = <<>>
  \/ mining_method \notin {"alpha", "heuristics"}

\* every request, valid or not, is answered 400 exactly when it is invalid
ValidationDecides ==
  \A u \in Users, file \in UploadFiles, m \in ALGORITHM_CHOICES, raw_name \in RawNames :
    (create_job_decision(u, file, raw_name, m).status = 400)
      <=> InvalidRequest(file, raw_name, m)

\* C13: create_job answers 400, creates no job record and starts no thread when the file
\* is missing, the file name ends in neither .xes nor .csv, the trimmed project name is
\* empty or the mining method is neither alpha nor heuristics; validation comes before
\* the quota checks, so an invalid request gets 400 whatever quota it exceeds, and only
\* valid requests are carried on. The decision is examined for every request on the
\* empty job table and after every insert.
C13_ValidationFirst ==
  [][/\ (resp'.op = "create_job" /\ resp'.status = 400)
          => /\ resp'.error \in {"file", "extension", "project_name", "mining_method"}
             /\ jobs' = jobs /\ runner' = runner /\ files' = files
             /\ inflight' = inflight /\ nextId' = nextId
     /\ \A r \in Admitted :
          /\ r.ext \in {".xes", ".csv"}
          /\ r.project_name # <<>>
          /\ r.mining_method \in {"alpha", "heuristics"}
     /\ Fresh => ValidationDecides
     /\ Inserted => ValidationDecides']_vars

\* a user at the project limit sends an upload without a project name
C13_Witness ==
  /\ resp.op = "create_job" /\ resp.status = 400 /\ resp.error = "project_name"
  /\ ProjectLimitReached(resp.user)

\* the row check is violated by a CSV of more rows than a non-premium user's limit
RowLimitExceeded(u, file) ==
  /\ file.ext = ".csv" /\ file.readable
  /\ ~is_premium(users[u]) /\ users[u].max_log_rows > 0
  /\ file.rows > users[u].max_log_rows

Last(s) == s[Len(s)]

\* every valid request gets the 403 of the first check it violates in the order
\* algorithm, project limit, row limit, and that check is the last one run
OrderDecides ==
  \A u \in Users, file \in UploadFiles, m \in ALGORITHM_CHOICES, raw_name \in RawNames :
    ~InvalidRequest(file, raw_name, m)
      => LET first == IF ~AlgorithmAllowed(users[u], m) THEN "algorithm"
                      ELSE IF ProjectLimitReached(u) THEN "projects"
                      ELSE IF RowLimitExceeded(u, file) THEN "rows"
                      ELSE ""
             d == create_job_decision(u, file, raw_name, m)
             checks == create_job_checks(u, file, raw_name, m)
         IN  /\ d.error = first
             /\ first # "" => (d.status = 403 /\ Last(checks) \in {first, "pre-scan"})
             /\ first \in {"algorithm", "projects"}
                  => ("rows" \notin Range(checks) /\ "pre-scan" \notin Range(checks))
             /\ first = "algorithm" => "projects" \notin Range(checks)

\* C14: create_job runs the quota checks in the order algorithm access, project limit,
\* row limit: a request that violates several of them gets the 403 of the first one it
\* violates, and no later check, the CSV pre-scan included, is run after a denial. The
\* decision is examined for every request on the empty job table and after every
\* insert.
C14_CheckOrder ==
  [][/\ (resp'.op = "create_job" /\ resp'.error = "rows")
          => ~ProjectLimitReached(resp'.user)
     /\ (resp'.op = "create_job" /\ resp'.error = "algorithm")
          => \E m \in {"alpha", "heuristics"} :
               Title(m) = resp'.detail.method /\ ~AlgorithmAllowed(users[resp'.user], m)
     /\ Fresh => OrderDecides
     /\ Inserted => OrderDecides']_vars

\* a user at the project limit asks for an algorithm outside the plan
C14_Witness ==
  /\ resp.op = "create_job" /\ resp.status = 403 /\ resp.error = "algorithm"
  /\ ProjectLimitReached(resp.user)

\* ------------------------------------------------------- job status claims
\* an id no job record ever has
NoSuchId == MaxJobs + 1

\* C15: job_status asked by a user for a job of another user answers 404, the very
\* response it gives for an id that no job has, whatever state the job is in: the answer
\* is one constant and so carries no field of the job. A 200 answer carries the payload
\* of a job the caller owns.
C15_ForeignJobHidden ==
  /\ \A u \in Users, j \in JobIds :
       (j \in Existing /\ jobs[j].user # u)
         => /\ job_status_response(u, j) = job_status_response(u, NoSuchId)
            /\ job_status_response(u, j) = Response("job_status", u, 404, "Job not found", 0)
  /\ (resp.op = "job_status" /\ resp.status = 200)
       => \E j \in Existing : jobs[j].user = resp.user /\ resp.detail = status_payload(j, jobs[j])
  /\ resp.op = "job_status" => resp.status \in {200, 404}

\* the other user has asked while every id is a job of the uploader, one done with a
\* stored map and one failed
C15_Witness ==
  /\ resp = Response("job_status", "ub", 404, "Job not found", 0)
  /\ \A j \in JobIds : j \in Existing /\ jobs[j].user = "ua"
  /\ \E j \in JobIds : jobs[j].status = "done" /\ get_output_url(j, jobs[j]) # Null
  /\ \E j \in JobIds : jobs[j].status = "error"

\* the job record exists and is done or error
Terminal(j) == j \in Existing /\ jobs[j].status \in {"done", "error"}

\* the step is an admin edit of job j
AdminEdited(j) == resp'.op = "admin_change" /\ resp'.error = "" /\ resp'.detail = j

\* C16 as stated: once a job is done or error, the answer job_status gives its owner is
\* the same after every step of the system, whatever the step is.
C16_TerminalPayloadFixed ==
  [][\A u \in Users, j \in JobIds :
       (Terminal(j) /\ jobs[j].user = u)
         => job_status_response(u, j)' = job_status_response(u, j)]_vars

\* C16: once a job is done or error, the answer job_status gives its owner is the same
\* after every step that neither deletes the record (delete_project) nor edits it in the
\* admin site: polls by any user, uploads, and every step of every process_job leave
\* status, progress, message, error_message, output_url and redirect_url as they were.
C16_TerminalPayloadKept ==
  [][\A u \in Users, j \in JobIds :
       (Terminal(j) /\ jobs[j].user = u /\ j \in Existing' /\ ~AdminEdited(j))
         => job_status_response(u, j)' = job_status_response(u, j)]_vars

\* the owner has polled a job that is done with its map stored, while a later job of the
\* same project is being mined and an earlier poll can have seen the same record
C16_Witness ==
  \E j, k \in JobIds :
    /\ Terminal(j) /\ jobs[j].status = "done" /\ runner[j] = "finished"
    /\ resp = Response("job_status", "ua", 200, "", status_payload(j, jobs[j]))
    /\ resp.detail.output_url # Null
    /\ k # j /\ runner[k] = "mine"

\* the fields of a job record that report on its processing
Progress(job) ==
  <<job.status, job.progress, job.message, job.error_message,
    job.output_map_svg, job.output_map_image>>

\* C17: after a job record is created, its status, progress, message, error_message and
\* output fields change only in a step of the process_job execution of that job id, and
\* job_status changes no job record.
C17_SingleWriter ==
  [][/\ \A j \in JobIds :
          (j \in Existing /\ j \in Existing' /\ Progress(jobs'[j]) # Progress(jobs[j]))
            => runner'[j] # runner[j]
     /\ resp'.op = "job_status" => jobs' = jobs]_vars

\* ----------------------------------------------------- job creation claims
\* how many times a process_job execution for job j has marked the job running
Runs(j) ==
  LET IsFirstSave(en) == en.kind = "save" /\ en.row.status = "running" /\ en.row.progress = 10
  IN  Len(SelectSeq(log[j], IsFirstSave))

CreationOps == {"create_job", "process_csv_import"}

\* C18: a step of create_job or process_csv_import that answers with a job id has
\* inserted exactly one job record, pending with progress 0, under that id and started
\* the process_job thread of that id, which has not yet run a stage; a request that is
\* rejected inserts no record and starts no thread; a thread is started only by such an
\* insert, so every id handed out has had exactly one thread and process_job marks a
\* job running at most once.
C18_OneRunnerPerCreation ==
  [][/\ (resp'.op \in CreationOps /\ resp'.status = 200)
          => \E j \in JobIds :
               /\ j = nextId /\ resp'.detail = j /\ nextId' = j + 1
               /\ jobs[j] = NoJob /\ runner[j] = "none"
               /\ jobs'[j].status = "pending" /\ jobs'[j].progress = 0
               /\ runner'[j] = "start" /\ Runs(j)' = 0
               /\ \A k \in JobIds \ {j} : jobs'[k] = jobs[k] /\ runner'[k] = runner[k]
     /\ (resp'.op \in CreationOps /\ resp'.status # 200)
          => jobs' = jobs /\ runner' = runner /\ nextId' = nextId /\ inflight' = inflight
     /\ \A j \in JobIds :
          /\ (runner'[j] = "start" /\ runner[j] # "start")
               => (resp'.op \in CreationOps /\ resp'.status = 200 /\ resp'.detail = j)
          /\ (j < nextId') <=> (runner'[j] # "none")
          /\ Runs(j)' <= 1
          /\ runner'[j] \notin {"none", "start"} => Runs(j)' = 1]_vars

\* the import has answered with the id of a job that is still pending, after a job
\* created by create_job has been processed to its end
C18_Witness ==
  /\ resp.op = "process_csv_import" /\ resp.status = 200
  /\ jobs[resp.detail].status = "pending" /\ runner[resp.detail] = "start"
  /\ \E k \in JobIds : jobs[k] # NoJob /\ jobs[k].message = "complete" /\ Runs(k) = 1

\* ---------------------------------------------------------- isolation claims
\* the step is a step of the process_job execution of job j
RunnerStep(j) == runner[j] # "none" /\ runner'[j] # runner[j]

\* the stored files of job k
Artifacts(k, fs) == {f \in fs : f[2] = k /\ f[1] # "session"}

\* a step of process_job(j) leaves the record, the stored files and the thread of every
\* other job as they were
OthersUntouched ==
  \A j \in JobIds :
    RunnerStep(j)
      => \A k \in JobIds \ {j} :
           /\ jobs'[k] = jobs[k]
           /\ Artifacts(k, files') = Artifacts(k, files)
           /\ rjob'[k] = rjob[k] /\ runner'[k] = runner[k] /\ log'[k] = log[k]

WellFormedPayload(p, j, job) ==
  /\ p.status = job.status /\ p.progress = job.progress /\ p.message = job.message
  /\ p.status \in STATUS_CHOICES
  /\ (p.error_message # Null) <=> (job.status = "error")
  /\ job.status = "error" => p.error_message = <<job.error_message>>
  /\ (p.redirect_url # Null) <=> (job.status = "done")
  /\ (p.output_url # Null)
       <=> (job.status = "done" /\ (job.output_map_svg \/ job.output_map_image))
  /\ (job.status = "done" /\ job.output_map_svg) => p.output_url = <<<<"svg", j>>>>
  /\ (job.status = "done" /\ ~job.output_map_svg /\ job.output_map_image)
       => p.output_url = <<<<"image", j>>>>

\* C20: for a job the caller owns, job_status answers 200 with status, progress and
\* message of the record; error_message is in the body exactly when the status is error;
\* redirect_url exactly when it is done; output_url only when the job is done and an
\* output is stored, the SVG when there is one and the PNG otherwise.
C20_StatusPayload ==
  /\ \A j \in Existing :
       LET r == job_status_response(jobs[j].user, j)
       IN  r.status = 200 /\ WellFormedPayload(r.detail, j, jobs[j])
  /\ (resp.op = "job_status" /\ resp.status = 200)
       => \E j \in Existing : jobs[j].user = resp.user
                              /\ WellFormedPayload(resp.detail, j, jobs[j])

\* the owner has polled a done job that has both the SVG of the runner and a PNG, while
\* another job of theirs has failed
C20_Witness ==
  \E j, k \in Existing :
    /\ jobs[j].status = "done" /\ jobs[j].output_map_svg /\ jobs[j].output_map_image
    /\ resp = Response("job_status", "ua", 200, "", status_payload(j, jobs[j]))
    /\ resp.detail.output_url = <<<<"svg", j>>>>
    /\ jobs[k].status = "error"
    /\ job_status_response("ua", k).detail.error_message # Null

\* ------------------------------------------------------------ liveness claims
\* C21: under fair scheduling of the threads, with every stage call returning or
\* raising, every job record that exists comes to status done or error, so a job is
\* neither pending nor running for ever.
C21_JobsTerminate ==
  \A j \in JobIds : (jobs[j] # NoJob) ~> (jobs[j] # NoJob /\ jobs[j].status \in {"done", "error"})

\* a poll has shown its owner a job in a terminal state
C21_Witness ==
  /\ resp.op = "job_status" /\ resp.status = 200
  /\ resp.detail.status \in {"done", "error"}
  /\ \E j \in Existing : runner[j] = "finished" /\ resp.detail = status_payload(j, jobs[j])

\* ------------------------------------------------------------ import claims
\* C22: every job record that exists, whichever endpoint created it, has a mining
\* method that is alpha or heuristics and that its owner is allowed to use (the licenses
\* do not change here, so what is allowed now was allowed at creation).
C22_MethodChecked ==
  \A j \in Existing :
    /\ jobs[j].mining_method \in {"alpha", "heuristics"}
    /\ can_use_algorithm(users[jobs[j].user], jobs[j].mining_method)

\* C25: every job record is created from a file whose stored name ends in .csv or
\* .xes, whichever endpoint created it; and a job whose file has another extension never
\* comes to done: once its thread has finished it is in error with progress 0.
C25_SupportedExtension ==
  \A j \in Existing :
    /\ jobs[j].ext \in {".csv", ".xes"}
    /\ jobs[j].ext \notin {".csv", ".xes"}
         => /\ jobs[j].status # "done"
            /\ runner[j] = "finished" => (jobs[j].status = "error" /\ jobs[j].progress = 0)

\* ----------------------------------------------------------- ordering claims
\* C23: in the history of every process_job thread the first entry is the save of
\* status running with progress 10, made when the record was pending; it comes before
\* the load stage and before every other save, no later save writes progress 10 again,
\* and a record that is still pending has had no save at all.
C23_RunningSavedFirst ==
  \A j \in JobIds :
    /\ log[j] # <<>>
         => /\ log[j][1].kind = "save"
            /\ log[j][1].row.status = "running" /\ log[j][1].row.progress = 10
            /\ \A i \in 2..Len(log[j]) :
                 log[j][i].kind = "save"
                   => ~(log[j][i].row.status = "running" /\ log[j][i].row.progress = 10)
    /\ (jobs[j] # NoJob /\ jobs[j].status = "pending")
         => (log[j] = <<>> /\ runner[j] \in {"none", "start"} /\ jobs[j].progress = 0)
    /\ runner[j] \notin {"none", "start"} /\ jobs[j] # NoJob => jobs[j].status # "pending"

\* a thread has saved the running state, then loaded the log, and has finished
C23_Witness ==
  \E j \in JobIds :
    /\ Len(log[j]) >= 3
    /\ log[j][1].kind = "save" /\ log[j][1].row.progress = 10
    /\ log[j][2].kind = "stage" /\ log[j][2].stage = "load"
    /\ runner[j] = "finished" /\ jobs[j].status = "done"

\* the stages one process_job thread has called, in the order it called them
StagesRun(j) ==
  LET IsStage(en) == en.kind = "stage"
      entries == SelectSeq(log[j], IsStage)
  IN  [i \in 1..Len(entries) |-> entries[i].stage]

IsPrefix(s, t) == Len(s) <= Len(t) /\ \A i \in 1..Len(s) : s[i] = t[i]

\* the progress value that is saved before a stage is called
CheckpointBefore(stage) ==
  CASE stage = "load" -> 10
    [] stage = "clean" -> 40
    [] stage = "discover" -> 70
    [] stage = "visualize" -> 90

\* C24: the stages a thread has called are an initial part of load, clean, discover,
\* visualize when cleaning_enabled and of load, discover, visualize otherwise, each
\* called after the one before it returned; the entry before a stage in the history is
\* the save of that stage's checkpoint; and while a stage is being run the persisted
\* record shows status running with the checkpoint of that stage.
C24_StagesInOrder ==
  \A j \in JobIds :
    /\ rjob[j] # NoJob
         => IsPrefix(StagesRun(j), IF rjob[j].cleaning_enabled
                                   THEN <<"load", "clean", "discover", "visualize">>
                                   ELSE <<"load", "discover", "visualize">>)
    /\ \A i \in 1..Len(log[j]) :
         log[j][i].kind = "stage"
           => /\ i > 1 /\ log[j][i - 1].kind = "save"
              /\ log[j][i - 1].row.status = "running"
              /\ log[j][i - 1].row.progress = CheckpointBefore(log[j][i].stage)
              /\ \A k \in 1..(i - 1) :
                   log[j][k].kind = "stage" => log[j][k].outcome = "ok"
    /\ (jobs[j] # NoJob /\ runner[j] \in {"load", "clean", "mine", "visualize"})
         => /\ jobs[j].status = "running"
            /\ jobs[j].progress = CASE runner[j] = "load" -> 10
                                    [] runner[j] = "clean" -> 40
                                    [] runner[j] = "mine" -> 70
                                    [] runner[j] = "visualize" -> 90
    /\ runner[j] = "clean" => rjob[j].cleaning_enabled
    /\ (runner[j] \in {"mine", "visualize", "finish"} /\ rjob[j].cleaning_enabled)
         => StageOutcome(j, "clean", "ok")

\* a job without cleaning is at its discovery stage, the record showing 70, while a job
\* with cleaning has run all four stages
C24_Witness ==
  \E j, k \in JobIds :
    /\ runner[j] = "mine" /\ ~rjob[j].cleaning_enabled /\ jobs[j].progress = 70
    /\ StagesRun(j) = <<"load">>
    /\ StagesRun(k) = <<"load", "clean", "discover", "visualize">>

\* ----------------------------------------------------------- deletion claims
\* C26: a job record comes into being only by an insert of create_job or
\* process_csv_import under a new id: once delete_project has removed a record, no write
\* of a process_job thread that was in flight brings it back, and a thread started for
\* an id without a record writes nothing.
C26_DeletedStaysDeleted ==
  [][\A j \in JobIds :
       /\ (jobs[j] = NoJob /\ jobs'[j] # NoJob)
            => (j = nextId /\ nextId' = nextId + 1 /\ resp'.status = 200)
       /\ (jobs[j] = NoJob /\ runner[j] = "start" /\ runner'[j] # "start")
            => (jobs'[j] = NoJob /\ log'[j] = log[j] /\ files' = files)]_vars

\* C27: a license code grants premium to at most one user, and once a user has become
\* premium through a code that code is marked used
C27_OneUserPerCode ==
  \A k \in CodeIds :
    /\ Cardinality({u \in Users : \E path \in {"register", "activate"} :
                                     <<u, k, path>> \in grants}) <= 1
    /\ (\E g \in grants : g[2] = k) => codes[k].is_used

\* some create_job request of user u would be answered 403 by a license check
QuotaDenied(u) ==
  \E file \in UploadFiles, raw_name \in RawNames, mining_method \in ALGORITHM_CHOICES :
    create_job_decision(u, file, raw_name, mining_method).status = 403

Activated(u) == \E k \in CodeIds : <<u, k, "activate">> \in grants

Expired(user) ==
  /\ user.license_type = LICENSE_PREMIUM
  /\ user.license_expires_at # Null
  /\ user.license_expires_at[1] < now

C30_LoadedOnce ==
  /\ loads <= 1
  /\ \A t, s \in Threads :
       loader[t].result # Null /\ loader[s].result # Null
         => loader[t].result = loader[s].result

====
